---------------------------- MODULE Spec2Model ----------------------------
(***************************************************************************)
(* A model of the rsc/markdown parser: the line-oriented block parser     *)
(* (parse.go, break.go, code.go, quote.go, heading.go, footnote.go, the    *)
(* list and paragraph builders, table.go), the link reference definitions  *)
(* (link.go), the inline parser (inline.go) and the HTML printer.          *)
(*                                                                         *)
(* Strings are sequences of one-character strings; Go's 0-based byte       *)
(* index i is kept, and s[i] is written At(s, i).                          *)
(***************************************************************************)
EXTENDS Integers, Sequences, FiniteSets, TLC

\* ------------------------------------------------------------------------
\* Bounds of the model (not program constants).
\* ------------------------------------------------------------------------
MaxLines == 3

MaxTokens == 6

\* the most tokens in a text of the strikethrough family
MaxStrike == 6

\* the most tokens in a text of the emphasis family
MaxEmph == 4

\* the longest text of the code span family, in bytes
MaxCode == 7

\* the most lines of a text given to one of two concurrent calls of Parse
MaxShared == 2

\* the most tokens of a text of the backtick run family
MaxTicks == 3

\* the most tokens of a text of the HTML marker family
MaxMarks == 3

\* the most tokens of a text of the quote family
MaxQuote == 5

\* the most characters in a row given to tableCount
MaxRow == 5

\* ------------------------------------------------------------------------
\* Byte strings.
\* ------------------------------------------------------------------------
At(s, i) == s[i + 1]

Slice(s, a, b) == SubSeq(s, a + 1, b)

From(s, a) == SubSeq(s, a + 1, Len(s))

Min(a, b) == IF a < b THEN a ELSE b

\* Bind(v, F) is F(v): the body of F names the value v, as a local variable
\* of the code names the result of a call.
Bind(v, F(_)) == F(v)

RECURSIVE IndexFrom(_, _, _)
IndexFrom(s, c, i) ==
    IF i >= Len(s) THEN -1
    ELSE IF At(s, i) = c THEN i
    ELSE IndexFrom(s, c, i + 1)

Contains(s, c) == \E k \in 1..Len(s) : s[k] = c

HasPrefix(s, pre) == Len(s) >= Len(pre) /\ SubSeq(s, 1, Len(pre)) = pre

RECURSIVE Join(_, _)
Join(list, sep) ==
    IF Len(list) = 0 THEN <<>>
    ELSE IF Len(list) = 1 THEN list[1]
    ELSE list[1] \o sep \o Join(Tail(list), sep)

RECURSIVE Concat(_)
Concat(list) == IF Len(list) = 0 THEN <<>> ELSE list[1] \o Concat(Tail(list))

UpperChars == <<"A", "B", "C", "D", "T", "U">>

LowerChars == <<"a", "b", "c", "d", "t", "u">>

DigitChars == {"0", "1", "2", "3", "4", "5", "6", "7", "8", "9"}

\* The backquote byte (0x60); the TLA+ lexer does not accept it in a string.
Backtick == "BQ"

PunctChars ==
    {"!", "\"", "#", "$", "%", "&", "'", "(", ")", "*", "+", ",", "-", ".", "/",
     ":", ";", "<", "=", ">", "?", "@", "[", "\\", "]", "^", "_", Backtick,
     "{", "|", "}", "~"}

isPunct(c) == c \in PunctChars

isLetter(c) == (\E k \in 1..Len(UpperChars) : UpperChars[k] = c)
               \/ (\E k \in 1..Len(LowerChars) : LowerChars[k] = c)

isUnicodeSpace(r) == r \in {" ", "\t", "\f", "\n"}

isUnicodePunct(r) == isPunct(r)

toLower(c) ==
    IF \E k \in 1..Len(UpperChars) : UpperChars[k] = c
    THEN LowerChars[CHOOSE k \in 1..Len(UpperChars) : UpperChars[k] = c]
    ELSE c

RECURSIVE skipSpace(_, _)
skipSpace(s, i) ==
    IF i < Len(s) /\ At(s, i) \in {" ", "\t", "\n"} THEN skipSpace(s, i + 1) ELSE i

RECURSIVE skipSpaceTabFrom(_, _)
skipSpaceTabFrom(s, i) ==
    IF i < Len(s) /\ At(s, i) \in {" ", "\t"} THEN skipSpaceTabFrom(s, i + 1) ELSE i

RECURSIVE trimRightSet(_, _)
trimRightSet(s, set) ==
    IF Len(s) > 0 /\ s[Len(s)] \in set THEN trimRightSet(SubSeq(s, 1, Len(s) - 1), set) ELSE s

RECURSIVE trimLeftSet(_, _)
trimLeftSet(s, set) ==
    IF Len(s) > 0 /\ s[1] \in set THEN trimLeftSet(Tail(s), set) ELSE s

trimRightSpaceTab(s) == trimRightSet(s, {" ", "\t"})

trimSpaceTab(s) == trimRightSet(trimLeftSet(s, {" ", "\t"}), {" ", "\t"})

trimSpaceTabNewline(s) ==
    trimRightSet(trimLeftSet(s, {" ", "\t", "\n"}), {" ", "\t", "\n"})

RECURSIVE mdUnescape(_)
mdUnescape(s) ==
    IF Len(s) = 0 THEN <<>>
    ELSE IF s[1] = "\\" /\ Len(s) >= 2 /\ isPunct(s[2])
         THEN <<s[2]>> \o mdUnescape(SubSeq(s, 3, Len(s)))
    ELSE <<s[1]>> \o mdUnescape(Tail(s))

\* ------------------------------------------------------------------------
\* line (break.go): the unconsumed part of an input line.
\* ------------------------------------------------------------------------
setNonblank(s) == [s EXCEPT !.nonblank = skipSpaceTabFrom(s.text, s.i)]

makeLine(text, nl) ==
    setNonblank([spaces |-> 0, i |-> 0, tab |-> 0, text |-> text, nl |-> nl, nonblank |-> 0])

noLine == [spaces |-> 0, i |-> 0, tab |-> 0, text |-> <<>>, nl |-> "", nonblank |-> 0]

peek(s) ==
    IF s.spaces > 0 THEN " "
    ELSE IF s.i >= Len(s.text) THEN ""
    ELSE At(s.text, s.i)

line_skipSpace(s) == [s EXCEPT !.spaces = 0, !.i = s.nonblank]

RECURSIVE trimSpaceLoop(_, _, _, _, _)
trimSpaceLoop(t, n, min, max, eolOK) ==
    IF n >= max THEN [ok |-> TRUE, s |-> t]
    ELSE IF t.spaces > 0
         THEN trimSpaceLoop([t EXCEPT !.spaces = @ - 1], n + 1, min, max, eolOK)
    ELSE IF t.i >= Len(t.text) /\ eolOK
         THEN trimSpaceLoop(t, n + 1, min, max, eolOK)
    ELSE IF t.i < Len(t.text) /\ At(t.text, t.i) = "\t"
         THEN trimSpaceLoop([t EXCEPT !.spaces = 4 - ((t.i - t.tab) % 4) - 1,
                                      !.i = t.i + 1, !.tab = t.i + 1],
                            n + 1, min, max, eolOK)
    ELSE IF t.i < Len(t.text) /\ At(t.text, t.i) = " "
         THEN trimSpaceLoop([t EXCEPT !.i = @ + 1], n + 1, min, max, eolOK)
    ELSE IF n >= min THEN [ok |-> TRUE, s |-> t]
    ELSE [ok |-> FALSE, s |-> t]

\* line.trimSpace: [ok, s]; s is unchanged when ok is FALSE.
line_trimSpace(s, min, max, eolOK) ==
    LET done(r) ==
            IF ~r.ok THEN [ok |-> FALSE, s |-> s]
            ELSE [ok |-> TRUE,
                  s |-> IF r.s.nonblank < r.s.i THEN setNonblank(r.s) ELSE r.s]
    IN done(trimSpaceLoop(s, 0, min, max, eolOK))

\* line.trim: [ok, s]
trim(s, c) ==
    IF s.spaces > 0
    THEN IF c = " " THEN [ok |-> TRUE, s |-> [s EXCEPT !.spaces = @ - 1]]
         ELSE [ok |-> FALSE, s |-> s]
    ELSE IF s.i < Len(s.text) /\ At(s.text, s.i) = c
         THEN LET t == [s EXCEPT !.i = @ + 1] IN
              [ok |-> TRUE, s |-> IF t.nonblank < t.i THEN setNonblank(t) ELSE t]
    ELSE [ok |-> FALSE, s |-> s]

RECURSIVE trimAll(_, _, _)
\* for t.trim(c) { n++ }: [n, s]
trimAll(s, c, n) ==
    LET next(r) == IF r.ok THEN trimAll(r.s, c, n + 1) ELSE [n |-> n, s |-> s]
    IN next(trim(s, c))

RECURSIVE trimAllN(_, _, _)
\* at most n successful t.trim(c)
trimAllN(s, c, n) ==
    LET next(r) == IF r.ok THEN trimAllN(r.s, c, n - 1) ELSE s
    IN IF n <= 0 THEN s ELSE next(trim(s, c))

line_skip(s, n) ==
    LET t == [s EXCEPT !.i = @ + n] IN
    IF t.nonblank < t.i THEN setNonblank(t) ELSE t

RECURSIVE Spaces(_)
Spaces(n) == IF n <= 0 THEN <<>> ELSE <<" ">> \o Spaces(n - 1)

line_string(s) == Spaces(s.spaces) \o From(s.text, Min(s.i, Len(s.text)))

isBlank(s) == s.nonblank = Len(s.text)

eof(s) == s.i >= Len(s.text)

trimSpaceString(s) == From(s.text, Min(s.nonblank, Len(s.text)))

trimString(s) == trimSpaceTab(From(s.text, Min(s.nonblank, Len(s.text))))

\* ------------------------------------------------------------------------
\* Link labels, destinations, titles and reference definitions (link.go).
\* ------------------------------------------------------------------------
\* "A link label can have at most 999 characters inside the square brackets."
LabelLimit == 999

\* Nesting depth of parentheses allowed in a link destination.
DestDepthLimit == 32

\* parseLinkLabel returns [label, end, ok, corner]
NoLabel(c) == [label |-> <<>>, end |-> 0, ok |-> FALSE, corner |-> c]

\* the body of the loop of parseLinkLabel at j < len(s): the value that
\* parseLinkLabel returns from there (done), or the j of the next iteration
labelStep(s, i, j) ==
    IF At(s, j) = "]"
    THEN [done |-> TRUE,
          res |-> IF j - (i + 1) > LabelLimit THEN NoLabel(TRUE)
                  ELSE LET label == trimSpaceTabNewline(Slice(s, i + 1, j)) IN
                       IF label # <<>>
                       THEN [label |-> label, end |-> j + 1, ok |-> TRUE, corner |-> FALSE]
                       ELSE NoLabel(FALSE)]
    ELSE IF At(s, j) = "[" THEN [done |-> TRUE, res |-> NoLabel(FALSE)]
    ELSE [done |-> FALSE, j |-> IF At(s, j) = "\\" /\ j + 1 < Len(s) THEN j + 2 ELSE j + 1]

RECURSIVE parseLinkLabelLoop(_, _, _)
parseLinkLabelLoop(s, i, j) ==
    IF j >= Len(s) THEN NoLabel(FALSE)
    ELSE Bind(labelStep(s, i, j), LAMBDA r :
         IF r.done THEN r.res ELSE parseLinkLabelLoop(s, i, r.j))

parseLinkLabel(s, i) ==
    IF i >= Len(s) \/ At(s, i) # "["
    THEN NoLabel(FALSE)
    ELSE parseLinkLabelLoop(s, i, i + 1)

\* the body of the loop of normalizeLabel on the byte c; st is [space, b]
normalizeStep(c, st) ==
    IF c \in {" ", "\t", "\n"} THEN [st EXCEPT !.space = TRUE]
    ELSE [space |-> FALSE,
          b |-> st.b \o (IF st.space THEN <<" ">> ELSE <<>>) \o <<toLower(c)>>]

RECURSIVE normalizeLoop(_, _, _)
normalizeLoop(s, i, st) ==
    IF i >= Len(s) THEN st.b
    ELSE normalizeLoop(s, i + 1, normalizeStep(At(s, i), st))

\* normalizeLabel before its loop: whether the loop runs, and on what
normalizeStart(s) ==
    IF Contains(s, "[") \/ Contains(s, "]") THEN [loop |-> FALSE, s |-> <<>>]
    ELSE [loop |-> TRUE, s |-> trimSpaceTabNewline(s)]

normalizeLabel(s) ==
    Bind(normalizeStart(s), LAMBDA n :
    IF ~n.loop THEN <<>>
    ELSE normalizeLoop(n.s, 0, [space |-> FALSE, b |-> <<>>]))

RECURSIVE parseLinkDestAngle(_, _, _)
parseLinkDestAngle(s, i, j) ==
    IF j >= Len(s) \/ At(s, j) = "\n" \/ At(s, j) = "<"
    THEN [dest |-> <<>>, end |-> 0, ok |-> FALSE]
    ELSE IF At(s, j) = ">"
         THEN [dest |-> mdUnescape(Slice(s, i + 1, j)), end |-> j + 1, ok |-> TRUE]
    ELSE IF At(s, j) = "\\" THEN parseLinkDestAngle(s, i, j + 2)
    ELSE parseLinkDestAngle(s, i, j + 1)

RECURSIVE parseLinkDestBare(_, _, _, _)
parseLinkDestBare(s, i, j, depth) ==
    IF j >= Len(s) THEN [dest |-> mdUnescape(Slice(s, i, Len(s))), end |-> Len(s), ok |-> TRUE]
    ELSE IF At(s, j) = "("
         THEN IF depth + 1 > DestDepthLimit THEN [dest |-> <<>>, end |-> 0, ok |-> FALSE]
              ELSE parseLinkDestBare(s, i, j + 1, depth + 1)
    ELSE IF At(s, j) = ")"
         THEN IF depth = 0 THEN [dest |-> mdUnescape(Slice(s, i, j)), end |-> j, ok |-> TRUE]
              ELSE parseLinkDestBare(s, i, j + 1, depth - 1)
    ELSE IF At(s, j) = "\\"
         THEN IF j + 1 < Len(s)
              THEN IF At(s, j + 1) \in {" ", "\t"} THEN [dest |-> <<>>, end |-> 0, ok |-> FALSE]
                   ELSE parseLinkDestBare(s, i, j + 2, depth)
              ELSE parseLinkDestBare(s, i, j + 1, depth)
    ELSE IF At(s, j) \in {" ", "\t", "\n"}
         THEN [dest |-> mdUnescape(Slice(s, i, j)), end |-> j, ok |-> TRUE]
    ELSE parseLinkDestBare(s, i, j + 1, depth)

parseLinkDest(s, i) ==
    IF i >= Len(s) THEN [dest |-> <<>>, end |-> 0, ok |-> FALSE]
    ELSE IF At(s, i) = "<" THEN parseLinkDestAngle(s, i, i + 1)
    ELSE parseLinkDestBare(s, i, i, 0)

RECURSIVE parseLinkTitleLoop(_, _, _, _)
parseLinkTitleLoop(s, i, j, want) ==
    IF j >= Len(s) THEN [title |-> <<>>, char |-> "", end |-> 0, found |-> FALSE]
    ELSE IF At(s, j) = want
         THEN [title |-> mdUnescape(Slice(s, i + 1, j)), char |-> want,
               end |-> j + 1, found |-> TRUE]
    ELSE IF At(s, j) = "(" /\ want = ")"
         THEN [title |-> <<>>, char |-> "", end |-> 0, found |-> FALSE]
    ELSE IF At(s, j) = "\\" /\ j + 1 < Len(s) THEN parseLinkTitleLoop(s, i, j + 2, want)
    ELSE parseLinkTitleLoop(s, i, j + 1, want)

parseLinkTitle(s, i) ==
    IF i < Len(s) /\ At(s, i) \in {"\"", "'", "("}
    THEN parseLinkTitleLoop(s, i, i + 1, IF At(s, i) = "(" THEN ")" ELSE At(s, i))
    ELSE [title |-> <<>>, char |-> "", end |-> 0, found |-> FALSE]

\* parser.link and parser.defineLink (parse.go) on the link map.
NoLinks == <<>>

hasLink(links, label) == label \in DOMAIN links

defineLink(links, label, link) ==
    [k \in (DOMAIN links) \cup {label} |-> IF k = label THEN link ELSE links[k]]

\* a definition that is always taken as new: the last definition would win
linkIsNewAlways(links, label) == TRUE

\* the "if p.link(label) == nil" guard of parseLinkRefDef
linkIsNew(links, label) == ~hasLink(links, label)

\* parseLinkRefDef after its call of parseLinkLabel returned lab; label is
\* normalizeLabel(lab.label): [end, ok, links, corner]
refDefAfterLabel(links, s, lab, label) ==
    LET fail(c) == [end |-> 0, ok |-> FALSE, links |-> links, corner |-> c]
        atEnd(i) == i >= Len(s) \/ At(s, i) = "\n"
    IN
    IF ~lab.ok \/ lab.end >= Len(s) \/ At(s, lab.end) # ":" THEN fail(lab.corner)
    ELSE
    Bind(skipSpace(s, lab.end + 1), LAMBDA i0 :
    Bind(parseLinkDest(s, i0), LAMBDA d :
    IF ~d.ok THEN fail(i0 < Len(s) /\ At(s, i0) = "<")
    ELSE
    \* the destination ended before the spaces and tabs that end at i
    Bind(skipSpaceTabFrom(s, d.end), LAMBDA i :
    \* "Take title if present and doesn't break parse."
    Bind(parseLinkTitle(s, skipSpaceTabFrom(s, IF atEnd(i) /\ i < Len(s) THEN i + 1 ELSE i)),
         LAMBDA t :
    \* the title is taken when only spaces and tabs follow it
    Bind(/\ i > d.end \/ atEnd(i)
         /\ t.found
         /\ atEnd(skipSpaceTabFrom(s, t.end)),
         LAMBDA titled :
    \* "Must end line": the definition ends at j
    Bind(IF titled THEN skipSpaceTabFrom(s, t.end) ELSE i, LAMBDA j :
    IF ~atEnd(j) THEN fail(titled /\ t.title = <<>>)
    ELSE [end |-> IF j < Len(s) THEN j + 1 ELSE j, ok |-> TRUE,
          corner |-> titled /\ t.title = <<>>,
          links |-> IF linkIsNew(links, label)
                    THEN defineLink(links, label,
                                    [URL |-> d.dest,
                                     Title |-> IF titled THEN t.title ELSE <<>>,
                                     TitleChar |-> IF titled THEN t.char ELSE ""])
                    ELSE links]))))))

\* parseLinkRefDef: [end, ok, links, corner]
parseLinkRefDef(links, s) ==
    Bind(parseLinkLabel(s, skipSpace(s, 0)), LAMBDA lab :
    refDefAfterLabel(links, s, lab, normalizeLabel(lab.label)))

\* ------------------------------------------------------------------------
\* Tables (table.go).
\* ------------------------------------------------------------------------
\* The vertical-tab byte (0x0B).
VT == "VT"

isTableSpace(c) == c \in {" ", "\t", VT, "\f"}

TableSpaces == {" ", "\t", VT, "\f"}

tableTrimSpace(s) == trimRightSet(trimLeftSet(s, TableSpaces), TableSpaces)

tableTrimOuter(row) ==
    LET dropLast(r) == IF Len(r) > 0 /\ r[Len(r)] = "|" THEN SubSeq(r, 1, Len(r) - 1) ELSE r
        dropFirst(r) == dropLast(IF Len(r) > 0 /\ r[1] = "|" THEN Tail(r) ELSE r)
    IN dropFirst(tableTrimSpace(row))

\* a count that takes every "|" as a column separator
RECURSIVE tableCountEvery(_, _, _, _)
tableCountEvery(row, i, prev, col) ==
    IF i >= Len(row) THEN col
    ELSE tableCountEvery(row, i + 1, At(row, i), IF At(row, i) = "|" THEN col + 1 ELSE col)

\* the loop of tableCount
RECURSIVE tableCountLoop(_, _, _, _)
tableCountLoop(row, i, prev, col) ==
    IF i >= Len(row) THEN col
    ELSE tableCountLoop(row, i + 1, At(row, i),
                        IF At(row, i) = "|" /\ prev # "\\" THEN col + 1 ELSE col)

tableCount(row) == tableCountLoop(row, 0, "", 1)

RECURSIVE skipSet(_, _, _)
skipSet(s, i, set) == IF i < Len(s) /\ At(s, i) \in set THEN skipSet(s, i + 1, set) ELSE i

RECURSIVE delimColumns(_, _, _)
\* the column-counting loop of isTableStart: the number of columns, or -1
delimColumns(delim, i, col) ==
    LET colon(j) == IF j < Len(delim) /\ At(delim, j) = ":" THEN j + 1 ELSE j
        pipe(j) == IF j < Len(delim) /\ At(delim, j) = "|" THEN j + 1 ELSE j
        \* the dashes of a column start at j
        dashes(j) ==
            IF j >= Len(delim) \/ At(delim, j) # "-" THEN -1
            ELSE delimColumns(delim,
                              pipe(skipSet(delim, colon(skipSet(delim, j + 1, {"-"})),
                                           TableSpaces)),
                              col + 1)
        column(j) == IF j >= Len(delim) THEN col ELSE dashes(colon(j))
    IN column(skipSet(delim, i, TableSpaces))

isTableStart(hdr1, delim1) ==
    LET counted(col) ==
            /\ col # -1
            /\ tableTrimSpace(hdr1) # <<"|">>
            /\ col = tableCount(tableTrimOuter(hdr1))
    IN counted(delimColumns(tableTrimOuter(delim1), 0, 0))

RECURSIVE tableUnescape(_)
tableUnescape(text) ==
    IF Len(text) = 0 THEN <<>>
    ELSE IF text[1] = "\\" /\ Len(text) >= 2 /\ text[2] = "|"
         THEN <<"|">> \o tableUnescape(SubSeq(text, 3, Len(text)))
    ELSE <<text[1]>> \o tableUnescape(Tail(text))

newText(pos, raw) == [kind |-> "Text", pos |-> pos, raw |-> raw]

\* a row left as short as it was written
padCellsNone(out, pos, width) == out

\* "Missing cells are considered empty."
RECURSIVE padCells(_, _, _)
padCells(out, pos, width) ==
    IF Len(out) < width THEN padCells(Append(out, newText(pos, <<>>)), pos, width) ELSE out

RECURSIVE parseRowLoop(_, _, _, _, _, _, _)
parseRowLoop(row, pos, width, i, start, unesc, out) ==
    LET text(t) == newText(pos, IF unesc THEN tableUnescape(t) ELSE t)
        cell(a, b) == text(tableTrimSpace(Slice(row, a, b)))
        next(out1) ==
            IF Len(out1) = width THEN out1
            ELSE parseRowLoop(row, pos, width, i + 1, i + 1, FALSE, out1)
    IN
    IF i >= Len(row) THEN padCells(Append(out, cell(start, Len(row))), pos, width)
    ELSE IF At(row, i) = "\\" /\ i + 1 < Len(row) /\ At(row, i + 1) = "|"
         THEN parseRowLoop(row, pos, width, i + 2, start, TRUE, out)
    ELSE IF At(row, i) = "|" THEN next(Append(out, cell(start, i)))
    ELSE parseRowLoop(row, pos, width, i + 1, start, unesc, out)

parseRow(row, lineNo, width) ==
    parseRowLoop(row, [StartLine |-> lineNo, EndLine |-> lineNo], width, 0, 0, FALSE, <<>>)

\* tableAlign indexes cell[0] and cell[len(cell)-1]: an empty cell panics.
tableAlign(cell0) ==
    LET align(l, r) ==
            IF l /\ r THEN "center" ELSE IF l THEN "left" ELSE IF r THEN "right" ELSE ""
        trimmed(cell) ==
            IF Len(cell) = 0 THEN "PANIC"
            ELSE align(cell[1] = ":", cell[Len(cell)] = ":")
    IN trimmed(tableTrimSpace(cell0))

RECURSIVE parseAlignLoop(_, _, _, _)
parseAlignLoop(delim, i, start, align) ==
    IF i >= Len(delim) THEN Append(align, tableAlign(From(delim, start)))
    ELSE IF At(delim, i) = "|"
         THEN parseAlignLoop(delim, i + 1, i + 1, Append(align, tableAlign(Slice(delim, start, i))))
    ELSE parseAlignLoop(delim, i + 1, start, align)

\* parseAlign ignores its width argument n.
parseAlign(delim, n) == parseAlignLoop(delim, 0, 0, <<>>)

\* tableBuilder.start and addRow
tableStart(hdr, delim) ==
    [hdr |-> tableTrimOuter(hdr), delim |-> tableTrimOuter(delim), rows |-> <<>>]

addRow(tb, row) == [tb EXCEPT !.rows = Append(@, tableTrimOuter(row))]

\* tableBuilder.build: [block, panic]
tableBuild(tb, pos0) ==
    LET start == pos0.StartLine - 1 IN
    Bind(tableCount(tb.hdr), LAMBDA width :
    Bind(parseAlign(tb.delim, width), LAMBDA align :
    [panic |-> IF \E k \in 1..Len(align) : align[k] = "PANIC"
               THEN "tableAlign: index out of range" ELSE "",
     block |-> [kind |-> "Table",
                pos |-> [StartLine |-> start, EndLine |-> start + 1 + Len(tb.rows)],
                Header |-> parseRow(tb.hdr, start, width),
                Align |-> align,
                Rows |-> [k \in 1..Len(tb.rows) |->
                             parseRow(tb.rows[k], start + 1 + k, width)]]]))

\* ------------------------------------------------------------------------
\* The open-block stack (parse.go).  A parser state P is the record
\*   [cfg, stack, lineDepth, lineno, links, footnotes, corner, root, panic]
\* Go's p.stack[k] is P.stack[k + 1].  P.panic is "" until the run aborts;
\* after that no operation changes P.
\* ------------------------------------------------------------------------
Nil == [kind |-> "nil"]

Pos(a, b) == [StartLine |-> a, EndLine |-> b]

rootBuilder == [kind |-> "root"]

quoteBuilder == [kind |-> "quote"]

paraBuilder(text, table) == [kind |-> "para", text |-> text, table |-> table]

listBuilder(bullet, start) ==
    [kind |-> "list", bullet |-> bullet, start |-> start, item |-> Nil, todo |-> Nil]

itemBuilder(width, haveContent) ==
    [kind |-> "item", width |-> width, haveContent |-> haveContent]

indentBuilder(text) == [kind |-> "indent", text |-> text]

fenceBuilder(indent, fence, info, text) ==
    [kind |-> "fence", indent |-> indent, fence |-> fence, info |-> info, text |-> text]

footnoteBuilder(label) == [kind |-> "footnote", label |-> label]

Top(P) == P.stack[Len(P.stack)]

blocks(P) == Top(P).inner

pos(P) == Top(P).pos

Panic(P, msg) == IF P.panic = "" THEN [P EXCEPT !.panic = msg] ELSE P

SetCorner(P, c) == IF c THEN [P EXCEPT !.corner = TRUE] ELSE P

curB(P) == IF P.lineDepth < Len(P.stack) THEN P.stack[P.lineDepth + 1].builder ELSE Nil

nextB(P) == IF P.lineDepth + 1 < Len(P.stack) THEN P.stack[P.lineDepth + 2].builder ELSE Nil

para(P) == IF Top(P).builder.kind = "para" THEN Top(P).builder ELSE Nil

last(P) == Top(P).inner[Len(Top(P).inner)]

deleteLast(P) ==
    [P EXCEPT !.stack[Len(P.stack)].inner = SubSeq(@, 1, Len(@) - 1)]

\* ------------------------------------------------------------------------
\* Builders: build.  Each returns [block, p].
\* ------------------------------------------------------------------------
rootBuild(P) ==
    [block |-> [kind |-> "Document", pos |-> pos(P), Blocks |-> blocks(P), Links |-> P.links],
     p |-> P]

quoteBuild(P) ==
    [block |-> [kind |-> "Quote", pos |-> pos(P), Blocks |-> blocks(P)], p |-> P]

itemBuild(P) ==
    [block |-> [kind |-> "Item", pos |-> pos(P), Blocks |-> blocks(P)], p |-> P]

RECURSIVE stripLinkRefDefs(_, _, _)
\* the "for s != ''" loop of paraBuilder.build: [s, links, corner]
stripLinkRefDefs(s, links, corner) ==
    LET next(r) ==
            IF ~r.ok THEN [s |-> s, links |-> links, corner |-> corner \/ r.corner]
            ELSE stripLinkRefDefs(From(s, skipSpace(s, r.end)), r.links, corner \/ r.corner)
    IN IF s = <<>> THEN [s |-> s, links |-> links, corner |-> corner]
       ELSE next(parseLinkRefDef(links, s))

paraBuild(b, P) ==
    LET table(t) == [block |-> t.block, p |-> IF t.panic # "" THEN Panic(P, t.panic) ELSE P]
        block(s, ps) ==
            IF s = <<>> THEN [kind |-> "Empty", pos |-> pos(P)]
            ELSE [kind |-> "Paragraph", pos |-> ps, Text |-> newText(ps, s)]
        text(r) ==
            [block |-> block(r.s, Pos(pos(P).StartLine, pos(P).StartLine + Len(b.text) - 1)),
             p |-> SetCorner([P EXCEPT !.links = r.links], r.corner)]
    IN IF b.table # Nil THEN table(tableBuild(b.table, pos(P)))
       ELSE text(stripLinkRefDefs(Join(b.text, <<"\n">>), P.links, FALSE))

indentBuild(b, P) ==
    [block |-> [kind |-> "CodeBlock", pos |-> pos(P), Fence |-> <<>>, Info |-> <<>>,
                Text |-> trimRightSet(b.text, {<<>>})],
     p |-> P]

fenceBuild(b, P) ==
    [block |-> [kind |-> "CodeBlock", pos |-> pos(P), Fence |-> b.fence, Info |-> b.info,
                Text |-> b.text],
     p |-> P]

footnoteBuild(b, P) ==
    LET key == normalizeLabel(b.label)
        note == [kind |-> "Footnote", pos |-> pos(P), Label |-> b.label, Blocks |-> blocks(P)]
    IN
    [block |-> [kind |-> "Empty", pos |-> Pos(0, 0)],
     p |-> [P EXCEPT !.footnotes =
                [k \in (DOMAIN P.footnotes) \cup {key} |->
                    IF k = key THEN note ELSE P.footnotes[k]]]]

\* The gap, in lines, above which two adjacent blocks count as separated.
looseGap == 1

RECURSIVE itemLooseLoop(_, _)
\* the inner loop of listBuilder.build over the blocks of one item
itemLooseLoop(bs, j) ==
    IF j >= Len(bs) THEN FALSE
    ELSE IF j + 1 < Len(bs) /\ bs[j + 2].pos.StartLine - bs[j + 1].pos.EndLine > looseGap
         THEN TRUE
    ELSE itemLooseLoop(bs, j + 1)

RECURSIVE listLooseLoop(_, _)
\* the Loose loop of listBuilder.build: "loose", "tight" or "panic"
listLooseLoop(bs, i) ==
    IF i >= Len(bs) THEN "tight"
    ELSE IF bs[i + 1].kind # "Item" THEN "panic"
    ELSE IF i + 1 < Len(bs) /\ bs[i + 2].pos.StartLine - bs[i + 1].pos.EndLine > looseGap
         THEN "loose"
    ELSE IF itemLooseLoop(bs[i + 1].Blocks, 0) THEN "loose"
    ELSE listLooseLoop(bs, i + 1)

\* tight lists: a Paragraph child of an item is replaced by its Text
unwrapItem(c) ==
    [c EXCEPT !.Blocks = [k \in 1..Len(c.Blocks) |->
                            IF c.Blocks[k].kind = "Paragraph" THEN c.Blocks[k].Text
                            ELSE c.Blocks[k]]]

listCorner(items) ==
    \E k \in 1..Len(items) :
        \/ Len(items[k].Blocks) = 0
        \/ /\ Len(items[k].Blocks) > 0
           /\ items[k].Blocks[1].kind \in {"List", "ThematicBreak", "CodeBlock"}

listBuild(b, P) ==
    LET list(l, items) ==
            [kind |-> "List", pos |-> Pos(pos(P).StartLine, last(P).pos.EndLine),
             Bullet |-> b.bullet, Start |-> b.start, Loose |-> (l = "loose"),
             Items |-> items]
        corner(x) ==
            IF \E k \in 1..Len(x.Items) : x.Items[k].kind # "Item"
            THEN [block |-> x, p |-> Panic(P, "listCorner: block is not *Item")]
            ELSE [block |-> x, p |-> SetCorner(P, listCorner(x.Items))]
        looseness(bs, l) ==
            IF l = "panic" \/ (l = "tight" /\ \E k \in 1..Len(bs) : bs[k].kind # "Item")
            THEN [block |-> Nil, p |-> Panic(P, "listBuilder.build: block is not *Item")]
            ELSE corner(list(l, IF l = "tight" THEN [k \in 1..Len(bs) |-> unwrapItem(bs[k])]
                                ELSE bs))
    IN IF Len(blocks(P)) = 0
       THEN [block |-> Nil, p |-> Panic(P, "listBuilder.build: index out of range")]
       ELSE looseness(blocks(P), listLooseLoop(blocks(P), 0))

build(b, P) ==
    CASE b.kind = "root" -> rootBuild(P)
      [] b.kind = "quote" -> quoteBuild(P)
      [] b.kind = "item" -> itemBuild(P)
      [] b.kind = "list" -> listBuild(b, P)
      [] b.kind = "para" -> paraBuild(b, P)
      [] b.kind = "indent" -> indentBuild(b, P)
      [] b.kind = "fence" -> fenceBuild(b, P)
      [] b.kind = "footnote" -> footnoteBuild(b, P)

\* closeBlock: build the top of the stack, pop it, attach the block to the
\* new top (or make it the root).  itemBuilder.build clears its list's item.
closeBlock(P) ==
    LET kind == Top(P).builder.kind
        attach(stack, n, b) ==
            [k \in 1..(n - 1) |->
                IF k = n - 1
                THEN [stack[k] EXCEPT
                        !.inner = Append(@, b),
                        !.builder = IF kind = "item" /\ @.kind = "list"
                                    THEN [@ EXCEPT !.item = Nil] ELSE @]
                ELSE stack[k]]
        built(r) ==
            IF r.p.panic # "" THEN r.p
            ELSE IF Len(P.stack) = 1
                 THEN IF r.block.kind = "Document"
                      THEN [r.p EXCEPT !.stack = <<>>, !.root = r.block]
                      ELSE Panic(r.p, "closeBlock: block is not *Document")
            ELSE [r.p EXCEPT !.stack = attach(@, Len(P.stack), r.block)]
    IN IF P.panic # "" THEN P
       ELSE built(build(Top(P).builder,
                        [P EXCEPT !.log = Append(@, [op |-> "build", id |-> Top(P).id])]))

RECURSIVE trimLoopDropsPara(_, _)
\* the loop of trimStack when it pops an open paragraph without building it
trimLoopDropsPara(P, depth) ==
    IF P.panic # "" \/ Len(P.stack) <= depth THEN P
    ELSE trimLoopDropsPara(IF Top(P).builder.kind = "para"
                           THEN [P EXCEPT !.stack = SubSeq(@, 1, Len(@) - 1)]
                           ELSE closeBlock(P), depth)

\* the loop of trimStack: "for len(p.stack) > depth { p.closeBlock() }"
RECURSIVE trimLoop(_, _)
trimLoop(P, depth) ==
    IF P.panic # "" \/ Len(P.stack) <= depth THEN P ELSE trimLoop(closeBlock(P), depth)

\* trimStack that also clears the Footnote flag through the embedded *Parser
trimStackClearsFlag(P, depth) ==
    IF P.panic # "" THEN P
    ELSE IF Len(P.stack) < depth THEN Panic(P, "trimStack")
    ELSE [trimLoop(P, depth) EXCEPT !.cfg.Footnote = FALSE]

\* trimStack: close the blocks above depth
trimStack(P, depth) ==
    IF P.panic # "" THEN P
    ELSE IF Len(P.stack) < depth THEN Panic(P, "trimStack")
    ELSE trimLoop(P, depth)

\* History of the stack, kept beside the parser state: every openBlock is
\* numbered in the order of the pushes (id), and log records each push
\* ("open") and each call of a builder's build ("build") with that number.
opened(log) == Cardinality({k \in 1..Len(log) : log[k].op = "open"})

addBlock(P, c) ==
    LET push(P1) ==
            IF P1.panic # "" THEN P1
            ELSE [P1 EXCEPT !.stack = Append(@, [builder |-> c, inner |-> <<>>,
                                                 pos |-> Pos(P.lineno, P.lineno),
                                                 id |-> opened(P1.log) + 1]),
                            !.log = Append(@, [op |-> "open", id |-> opened(P1.log) + 1])]
    IN push(trimStack(P, P.lineDepth + 1))

doneBlock(P, b) ==
    LET add(P1) ==
            IF P1.panic # "" THEN P1
            ELSE IF Len(P1.stack) = 0 THEN Panic(P1, "doneBlock: index out of range")
            ELSE [P1 EXCEPT !.stack[Len(P1.stack)].inner = Append(@, b)]
    IN add(trimStack(P, P.lineDepth + 1))

\* ------------------------------------------------------------------------
\* Builders: extend.  Each returns [p, s, ok]; k is the index in P.stack of
\* the builder being extended.
\* ------------------------------------------------------------------------
Res(P, s, ok) == [p |-> P, s |-> s, ok |-> ok]

trimQuote(s) ==
    Bind(trim(line_trimSpace(s, 0, 3, FALSE).s, ">"), LAMBDA t :
    IF ~t.ok THEN [s |-> s, ok |-> FALSE]
    ELSE [s |-> line_trimSpace(t.s, 0, 1, TRUE).s, ok |-> TRUE])

RECURSIVE trimIndent(_, _, _)
\* for indent < max && t.trimSpace(1, 1, false) { indent++ }: [n, s]
trimIndent(t, n, max) ==
    IF n >= max THEN [n |-> n, s |-> t]
    ELSE Bind(line_trimSpace(t, 1, 1, FALSE), LAMBDA r :
         IF r.ok THEN trimIndent(r.s, n + 1, max) ELSE [n |-> n, s |-> t])

\* trimFence: [indent, fence, info, ok]
trimFence(s) ==
    LET fail == [indent |-> 0, fence |-> <<>>, info |-> <<>>, ok |-> FALSE] IN
    Bind(trimIndent(s, 0, 3), LAMBDA ind :
    Bind(peek(ind.s), LAMBDA c :
    IF c # Backtick /\ c # "~" THEN fail
    ELSE
    Bind(trimAll(ind.s, c, 0), LAMBDA r :
    Bind(mdUnescape(trimString(r.s)), LAMBDA info :
    IF r.n < 3 THEN fail
    ELSE IF c = Backtick /\ Contains(info, Backtick) THEN fail
    ELSE [indent |-> ind.n, fence |-> SubSeq(line_string(ind.s), 1, r.n),
          info |-> trimSpaceTab(info), ok |-> TRUE]))))

quoteExtend(P, s) == Bind(trimQuote(s), LAMBDA r : Res(P, r.s, r.ok))

\* a list between items that goes on over any line, blank or not
listIdlesAnyLine(c, s) == c.item = Nil

\* "item == nil && s.isBlank()": a list between items goes on over a blank line
listIdles(c, s) == c.item = Nil /\ isBlank(s)

listExtend(c, P, s) ==
    IF listIdles(c, s) THEN Res(P, s, TRUE)
    ELSE IF c.item # Nil
         THEN Bind(line_trimSpace(s, c.item.width, c.item.width, TRUE), LAMBDA r :
              Res(P, IF r.ok THEN r.s ELSE s, r.ok))
    ELSE Res(P, s, FALSE)

itemExtend(c, P, k, s) ==
    IF isBlank(s) /\ ~c.haveContent THEN Res(P, s, FALSE)
    ELSE IF isBlank(s) THEN Res(P, noLine, TRUE)
    ELSE Res([P EXCEPT !.stack[k].builder.haveContent = TRUE], s, TRUE)

\* a paragraph builder whose extend accepts the line
paraExtendAccepts(P, s) == Res(P, s, TRUE)

\* paraBuilder.extend: "we return false and let startParagraph handle extension"
paraExtend(P, s) == Res(P, s, FALSE)

indentExtend(c, P, k, s) ==
    Bind(line_trimSpace(s, 4, 4, TRUE), LAMBDA r :
    IF ~r.ok THEN Res(P, s, FALSE)
    ELSE Res(SetCorner([P EXCEPT !.stack[k].builder.text = Append(@, line_string(r.s))],
                       r.s.nl # "\n"),
             noLine, TRUE))

fenceExtend(c, P, k, s) ==
    Bind(trimFence(s), LAMBDA f :
    IF f.ok /\ HasPrefix(f.fence, c.fence) /\ f.info = <<>> THEN Res(P, noLine, FALSE)
    ELSE
    Bind(line_trimSpace(s, c.indent, c.indent, FALSE), LAMBDA r :
    Bind(IF r.ok THEN r.s ELSE line_trimSpace(s, 0, c.indent, FALSE).s, LAMBDA t :
    Res(SetCorner([P EXCEPT !.stack[k].builder.text = Append(@, line_string(t))],
                  ~r.ok \/ t.nl # "\n"),
        noLine, TRUE))))

footnoteExtend(P, s) == Bind(line_trimSpace(s, 4, 4, TRUE), LAMBDA r : Res(P, r.s, r.ok))

extend(P, k, s) ==
    LET b == P.stack[k].builder IN
    CASE b.kind = "root" -> Res(Panic(P, "root extend"), s, FALSE)
      [] b.kind = "quote" -> quoteExtend(P, s)
      [] b.kind = "list" -> listExtend(b, P, s)
      [] b.kind = "item" -> itemExtend(b, P, k, s)
      [] b.kind = "para" -> paraExtend(P, s)
      [] b.kind = "indent" -> indentExtend(b, P, k, s)
      [] b.kind = "fence" -> fenceExtend(b, P, k, s)
      [] b.kind = "footnote" -> footnoteExtend(P, s)

\* ------------------------------------------------------------------------
\* Starters.  Each returns [p, s, ok].
\* ------------------------------------------------------------------------
startIndentedCodeBlock(P, s) ==
    Bind(line_trimSpace(s, 4, 4, FALSE), LAMBDA r :
    IF para(P) # Nil \/ ~r.ok \/ isBlank(r.s) THEN Res(P, s, FALSE)
    ELSE Res(SetCorner(addBlock(P, indentBuilder(<<line_string(r.s)>>)), r.s.nl # "\n"),
             noLine, TRUE))

startFencedCodeBlock(P, s) ==
    Bind(trimFence(s), LAMBDA f :
    IF ~f.ok THEN Res(P, s, FALSE)
    ELSE
    Res(addBlock(SetCorner(P,
                     \/ f.fence[1] = "~" /\ f.info # <<>>
                     \/ f.info # <<>> /\ ~isLetter(f.info[1])
                     \/ \E k \in 1..Len(f.info) :
                           /\ isUnicodeSpace(f.info[k])
                           /\ f.info[k] # " "
                           /\ \A j \in 1..(k - 1) : ~isUnicodeSpace(f.info[j])),
                 fenceBuilder(f.indent, f.fence, f.info, <<>>)),
        noLine, TRUE))

startBlockQuote(P, s) ==
    Bind(trimQuote(s), LAMBDA r :
    IF ~r.ok THEN Res(P, s, FALSE) ELSE Res(addBlock(P, quoteBuilder), r.s, TRUE))

\* trimATX: [level, s, ok]
trimATX(s) ==
    Bind(trim(line_trimSpace(s, 0, 3, FALSE).s, "#"), LAMBDA t1 :
    IF ~t1.ok THEN [level |-> 0, s |-> s, ok |-> FALSE]
    ELSE
    Bind(trimAll(t1.s, "#", 0), LAMBDA r :
    \* for n < 6 && t.trim('#') { n++ }
    Bind(line_trimSpace(IF r.n <= 5 THEN r.s ELSE trimAllN(t1.s, "#", 5), 1, 1, TRUE),
         LAMBDA t3 :
    IF ~t3.ok THEN [level |-> 0, s |-> s, ok |-> FALSE]
    ELSE [level |-> 1 + Min(r.n, 5), s |-> t3.s, ok |-> TRUE])))

trimRightHashes(text) == trimRightSet(text, {"#"})

\* The HeadingID extension is off in every configuration of the model.
startATXHeading(P, s) ==
    LET ps == Pos(P.lineno, P.lineno) IN
    Bind(trimATX(s), LAMBDA a :
    IF ~a.ok THEN Res(P, s, FALSE)
    ELSE
    Bind(trimRightSpaceTab(line_string(a.s)), LAMBDA text0 :
    Bind(trimRightHashes(text0), LAMBDA inner :
    Res(doneBlock(P, [kind |-> "Heading", pos |-> ps, Level |-> a.level,
                      Text |-> newText(ps, IF inner # trimRightSpaceTab(inner) \/ inner = <<>>
                                           THEN inner ELSE text0),
                      ID |-> <<>>]),
        noLine, TRUE))))

\* trimSetext: [level, ok]
trimSetext(s) ==
    Bind(line_trimSpace(s, 0, 3, FALSE).s, LAMBDA t0 :
    Bind(peek(t0), LAMBDA c :
    IF c # "-" /\ c # "=" THEN [level |-> 0, ok |-> FALSE]
    ELSE IF ~eof(line_skipSpace(trimAll(t0, c, 0).s)) THEN [level |-> 0, ok |-> FALSE]
    ELSE [level |-> IF c = "-" THEN 2 ELSE 1, ok |-> TRUE]))

\* "p.nextB() != p.para()": the builder after the current one is the
\* paragraph builder on top of the stack.
nextBIsPara(P) == P.lineDepth + 2 = Len(P.stack) /\ para(P) # Nil

startSetextHeading(P, s) ==
    IF ~nextBIsPara(P) THEN Res(P, s, FALSE)
    ELSE
    Bind(trimSetext(s), LAMBDA t :
    IF ~t.ok THEN Res(P, s, FALSE)
    ELSE
    Bind(closeBlock(P), LAMBDA P1 :
    IF P1.panic # "" THEN Res(P1, s, FALSE)
    ELSE IF last(P1).kind # "Paragraph" THEN Res(P1, s, FALSE)
    ELSE Res(doneBlock(deleteLast(P1),
                       [kind |-> "Heading", pos |-> Pos(last(P1).pos.StartLine, P.lineno),
                        Level |-> t.level, Text |-> last(P1).Text, ID |-> <<>>]),
             noLine, TRUE)))

RECURSIVE breakLoop(_, _, _)
\* the loop of trimThematicBreak: [ok, s]
breakLoop(t, c, i) ==
    Bind(trim(t, c), LAMBDA r :
    IF ~r.ok THEN [ok |-> i >= 3, s |-> t]
    ELSE breakLoop(line_skipSpace(r.s), c, i + 1))

trimThematicBreak(s) ==
    Bind(line_trimSpace(s, 0, 3, FALSE).s, LAMBDA t0 :
    Bind(peek(t0), LAMBDA c :
    IF c # "-" /\ c # "_" /\ c # "*" THEN FALSE
    ELSE Bind(breakLoop(t0, c, 0), LAMBDA r : r.ok /\ eof(r.s))))

startThematicBreak(P, s) ==
    IF ~trimThematicBreak(s) THEN Res(P, s, FALSE)
    ELSE Res(doneBlock(P, [kind |-> "ThematicBreak", pos |-> Pos(P.lineno, P.lineno)]),
             noLine, TRUE)

DigitVal(c) == CHOOSE n \in 0..9 : ToString(n) = c

\* the most digits an ordered list marker may have
MarkerDigits == 9

RECURSIVE markerLoop(_, _, _, _)
\* the digit loop of startListItem: [ok, bullet, j, num]
markerLoop(text, i0, j, num) ==
    IF j >= Len(text) THEN [ok |-> FALSE, bullet |-> "", j |-> j, num |-> num]
    ELSE IF At(text, j) \in {".", ")"}
         THEN [ok |-> TRUE, bullet |-> At(text, j), j |-> j + 1, num |-> num]
    ELSE IF At(text, j) \notin DigitChars \/ j - i0 >= MarkerDigits
         THEN [ok |-> FALSE, bullet |-> "", j |-> j, num |-> num]
    ELSE markerLoop(text, i0, j + 1, num * 10 + DigitVal(At(text, j)))

\* list.todo, the closure that startListItem leaves on the list builder:
\* "p.addBlock(b); list.item = b; return t", then "list.todo = nil"
runTodo(P, s) ==
    LET k == P.lineDepth + 1 IN
    Bind(curB(P).todo, LAMBDA todo :
    Bind(addBlock([P EXCEPT !.stack[k].builder.todo = Nil], todo.b), LAMBDA P1 :
    IF P1.panic # "" THEN Res(P1, s, FALSE)
    ELSE Res([P1 EXCEPT !.stack[k].builder.item = [kind |-> "item", width |-> todo.b.width]],
             todo.t, TRUE)))

startListItem(P, s) ==
    IF curB(P).kind = "list" /\ curB(P).todo # Nil THEN runTodo(P, s)
    ELSE
    Bind(trimIndent(s, 0, 3), LAMBDA ind :
    Bind(peek(ind.s), LAMBDA c :
    Bind(c \in {"-", "*", "+"}, LAMBDA isBullet :
    Bind(markerLoop(ind.s.text, ind.s.i, ind.s.i, 0), LAMBDA m :
    IF ~isBullet /\ ~(c \in DigitChars /\ m.ok) THEN Res(P, s, FALSE)
    ELSE
    Bind(IF isBullet THEN c ELSE m.bullet, LAMBDA bullet :
    Bind(IF isBullet THEN 0 ELSE m.num, LAMBDA num :
    Bind(line_trimSpace(IF isBullet THEN trim(ind.s, c).s ELSE [ind.s EXCEPT !.i = m.j],
                        1, 1, TRUE),
         LAMBDA t1 :
    IF ~t1.ok THEN Res(P, s, FALSE)
    ELSE
    Bind(trimIndent(t1.s, 0, 3), LAMBDA tt :
    Bind(~line_trimSpace(tt.s, 1, 1, TRUE).ok, LAMBDA more :
    Bind(IF more THEN tt.s ELSE t1.s, LAMBDA t :
    Bind(ind.n + (IF isBullet THEN 1 ELSE m.j - ind.s.i) + 1 + (IF more THEN tt.n ELSE 0),
         LAMBDA n :
    Bind(IF nextB(P).kind = "list" THEN nextB(P) ELSE Nil, LAMBDA list :
    IF list = Nil /\ para(P) # Nil /\ (isBlank(t) \/ (bullet \in {".", ")"} /\ num # 1))
    THEN Res(SetCorner(P, TRUE), s, FALSE)
    ELSE
    Bind(IF list = Nil \/ list.bullet # bullet
         THEN addBlock(P, listBuilder(bullet, num)) ELSE P,
         LAMBDA P1 :
    IF P1.panic # "" THEN Res(P1, s, FALSE)
    ELSE Res([P1 EXCEPT !.stack[P.lineDepth + 2].builder.todo =
                  [b |-> itemBuilder(n, ~isBlank(t)), t |-> t]],
             s, TRUE))))))))))))))

\* startHTMLBlock: only the early out is modelled; no line of the model has
\* "<" as its first non-space byte.
startHTMLBlock(P, s) == Res(P, s, FALSE)

startFootnote(P, s) ==
    Bind(trim(line_trimSpace(s, 0, 3, FALSE).s, "["), LAMBDA t1 :
    IF ~t1.ok THEN Res(P, s, FALSE)
    ELSE
    Bind(trim(t1.s, "^"), LAMBDA t2 :
    IF ~t2.ok THEN Res(P, s, FALSE)
    ELSE
    Bind(line_string(t2.s), LAMBDA label0 :
    Bind(IndexFrom(label0, "]", 0), LAMBDA i :
    IF i < 0 THEN Res(P, s, FALSE)
    ELSE IF i + 1 >= Len(label0)
         THEN \* label[i+1] is evaluated with i+1 = len(label)
              Res(Panic(P, "startFootnote: index out of range"), s, FALSE)
    ELSE
    Bind(SubSeq(label0, 1, i), LAMBDA label :
    IF \E k \in 1..Len(label) : label[k] \in {" ", "\r", "\n", "\t"}
    THEN Res(P, s, FALSE)
    ELSE IF normalizeLabel(label) \in DOMAIN P.footnotes
         THEN Res(SetCorner(P, TRUE), s, FALSE)
    ELSE Res(addBlock(P, footnoteBuilder(label)), line_skip(t2.s, i + 2), TRUE))))))

RECURSIVE setEndLines(_, _, _)
setEndLines(stack, i, lineno) ==
    IF i >= Len(stack) THEN stack
    ELSE setEndLines([stack EXCEPT ![i + 1].pos.EndLine = lineno], i + 1, lineno)

startParagraph(P, s) ==
    LET top == Len(P.stack)
        indented == P.lineDepth = Len(P.stack) - 2
    IN
    Bind(para(P), LAMBDA b :
    Bind(trimSpaceString(s), LAMBDA str :
    IF b # Nil /\ b.table # Nil /\ indented /\ str # <<>> /\ str # <<"|">>
    THEN [P EXCEPT !.stack[top].builder.table = addRow(@, str)]
    ELSE
    Bind(/\ P.cfg.Table /\ b # Nil /\ b.table = Nil /\ indented /\ Len(b.text) > 0
         /\ isTableStart(b.text[Len(b.text)], str),
         LAMBDA table :
    IF ~table /\ b # Nil /\ b.table = Nil
    THEN [P EXCEPT !.stack = setEndLines(
                      [@ EXCEPT ![top].builder.text = Append(@, str)],
                      P.lineDepth, P.lineno)]
    ELSE addBlock(IF table
                  THEN [P EXCEPT !.stack[top].builder.text = SubSeq(@, 1, Len(@) - 1)]
                  ELSE P,
                  IF table THEN paraBuilder(<<>>, tableStart(b.text[Len(b.text)], str))
                  ELSE paraBuilder(<<str>>, Nil)))))

\* ------------------------------------------------------------------------
\* addLine (parse.go)
\* ------------------------------------------------------------------------
RECURSIVE extendLoop(_, _)
\* "Process continued prefixes": [p, s]
extendLoop(P, s) ==
    LET k == P.lineDepth + 2 IN
    IF P.panic # "" \/ ~(P.lineDepth + 1 < Len(P.stack)) THEN [p |-> P, s |-> s]
    ELSE
    Bind(extend(P, k, s), LAMBDA r :
    Bind(IF (r.ok \/ r.s # s) /\ ~isBlank(s)
         THEN [r.p EXCEPT !.stack[k].pos.EndLine = P.lineno] ELSE r.p,
         LAMBDA P1 :
    IF ~r.ok THEN [p |-> P1, s |-> r.s]
    ELSE extendLoop([P1 EXCEPT !.lineDepth = @ + 1], r.s)))

\* the starters, in the order of the starters table
NumStarters == 9

\* the starters table with the thematic break before the Setext heading
starterBreakFirst(n, P, s) ==
    CASE n = 1 -> startIndentedCodeBlock(P, s)
      [] n = 2 -> startFencedCodeBlock(P, s)
      [] n = 3 -> startBlockQuote(P, s)
      [] n = 4 -> startATXHeading(P, s)
      [] n = 5 -> startThematicBreak(P, s)
      [] n = 6 -> startSetextHeading(P, s)
      [] n = 7 -> startListItem(P, s)
      [] n = 8 -> startHTMLBlock(P, s)
      [] n = 9 -> startFootnote(P, s)

\* the starters table, src/parse.go:339-349
starter(n, P, s) ==
    CASE n = 1 -> startIndentedCodeBlock(P, s)
      [] n = 2 -> startFencedCodeBlock(P, s)
      [] n = 3 -> startBlockQuote(P, s)
      [] n = 4 -> startATXHeading(P, s)
      [] n = 5 -> startSetextHeading(P, s)
      [] n = 6 -> startThematicBreak(P, s)
      [] n = 7 -> startListItem(P, s)
      [] n = 8 -> startHTMLBlock(P, s)
      [] n = 9 -> startFootnote(P, s)

RECURSIVE prefixes(_, _, _)
\* "Process new prefixes, if any", then startParagraph
prefixes(P, s, n) ==
    IF P.panic # "" THEN P
    ELSE IF n > NumStarters THEN startParagraph(P, s)
    ELSE
    Bind(starter(n, P, s), LAMBDA r :
    IF r.p.panic # "" THEN r.p
    ELSE IF ~r.ok THEN prefixes(r.p, s, n + 1)
    ELSE IF isBlank(r.s) THEN r.p
    ELSE prefixes([r.p EXCEPT !.lineDepth = @ + 1], r.s, 1))

\* addLine without "p.lineDepth = 0"
addLineKeepDepth(P, s) ==
    Bind(extendLoop(P, s), LAMBDA e :
    IF e.p.panic # "" THEN e.p
    ELSE IF isBlank(e.s) THEN trimStack(e.p, e.p.lineDepth + 1)
    ELSE prefixes(e.p, e.s, 1))

\* addLine: extend the open containers, then open new blocks
addLine(P, s) ==
    Bind(extendLoop([P EXCEPT !.lineDepth = 0], s), LAMBDA e :
    IF e.p.panic # "" THEN e.p
    ELSE IF isBlank(e.s) THEN trimStack(e.p, e.p.lineDepth + 1)
    ELSE prefixes(e.p, e.s, 1))

\* ------------------------------------------------------------------------
\* Inline parsing (inline.go, link.go, footnote.go, break.go).
\* Inlines are records with a kind: Plain, openPlain, emphPlain, Escaped,
\* HardBreak, SoftBreak, Link, Image, FootnoteLink, Emph, Strong, Del.
\* Code, AutoLink, HTMLTag.  HTML open and closing tags, entities, emoji and
\* the smart dot and dash rewrites are not modelled: no text of the model
\* holds "&" or has a letter or "/" after "<", and those extensions are off.
\* ------------------------------------------------------------------------
Plain(text) == [kind |-> "Plain", Text |-> text]

\* the curly quotes that replace ASCII quotes
LDQ == "LDQ"

RDQ == "RDQ"

LSQ == "LSQ"

RSQ == "RSQ"

\* a merge that leaves emphPlain nodes as they are
isPlainOnly(x) == x.kind = "Plain"

\* the nodes mergePlain merges: Plain, and emphPlain as its embedded Plain
isPlainLike(x) == x.kind \in {"Plain", "emphPlain"}

RECURSIVE mergePlainFrom(_, _, _)
\* mergePlain: i scans list, run is the text of the current run of Plain
\* nodes ("none" when the run is empty)
mergePlainFrom(list, i, run) ==
    LET flush == IF run = <<"none">> THEN <<>> ELSE << Plain(run[2]) >> IN
    IF i > Len(list) THEN flush
    ELSE IF isPlainLike(list[i])
         THEN mergePlainFrom(list, i + 1,
                  IF run = <<"none">> THEN <<"run", list[i].Text>>
                  ELSE <<"run", run[2] \o list[i].Text>>)
    ELSE flush \o << list[i] >> \o mergePlainFrom(list, i + 1, <<"none">>)

mergePlain(list) == mergePlainFrom(list, 1, <<"none">>)

\* The 16 stacks of emph, as the constants of the function.
stackStrike == 0

stackSingleQuote == 2

stackDoubleQuote == 3

stackStar == 4

stackUnder == 10

stackTotal == 16

\* A stack of emph holds the positions in dst of its emphPlain nodes.
EmptyStacks == [k \in 0..(stackTotal - 1) |-> <<>>]

PushStack(stk, si, i) == [stk EXCEPT ![si] = Append(@, i)]

RECURSIVE popFrom(_, _)
popFrom(one, n) ==
    IF Len(one) > 0 /\ one[Len(one)] >= n THEN popFrom(SubSeq(one, 1, Len(one) - 1), n) ELSE one

\* "pop everything that is gone from the stacks too"
PopStacks(stk, n) == [k \in 0..(stackTotal - 1) |-> popFrom(stk[k], n)]

\* the rule of 3 applied only when each of the two runs can open and close
allowUnlessBoth(p, start) ==
    \/ ~(p.canOpen /\ start.canClose)
    \/ (p.n + start.n) % 3 # 0
    \/ p.n % 3 = 0

\* rule 9 of emphasis ("rule of 3")
allow(p, start) ==
    \/ ~p.canOpen /\ ~start.canClose
    \/ (p.n + start.n) % 3 # 0
    \/ p.n % 3 = 0

\* a search that takes the latest "~" opener of either length for a "~" closer
findStartAnyStrike(dst, stk, p) ==
    LET top(one) == IF Len(one) = 0 THEN -1 ELSE one[Len(one)]
        highest(ok) == IF ok = {} THEN -1 ELSE CHOOSE m \in ok : \A o \in ok : o <= m
        allowed(si) ==
            highest({top(stk[k]) : k \in {j \in si..(si + 5) :
                        /\ Len(stk[j]) > 0
                        /\ allow(p, dst[top(stk[j]) + 1])}})
    IN IF p.Text[1] = "~" THEN highest({top(stk[stackStrike]), top(stk[stackStrike + 1])})
       ELSE allowed(IF p.Text[1] = "_" THEN stackUnder ELSE stackStar)

\* the position in dst of the opener that closer p matches, or -1
findStart(dst, stk, p) ==
    LET top(one) == IF Len(one) = 0 THEN -1 ELSE one[Len(one)]
        highest(ok) == IF ok = {} THEN -1 ELSE CHOOSE m \in ok : \A o \in ok : o <= m
        allowed(si) ==
            highest({top(stk[k]) : k \in {j \in si..(si + 5) :
                        /\ Len(stk[j]) > 0
                        /\ allow(p, dst[top(stk[j]) + 1])}})
    IN IF p.Text[1] = "~" THEN top(stk[stackStrike + Len(p.Text) - 1])
       ELSE allowed(IF p.Text[1] = "_" THEN stackUnder ELSE stackStar)

emphKind(del, d) == IF del THEN "Del" ELSE IF d = 2 THEN "Strong" ELSE "Emph"

\* the stack an opener is pushed on
openStack(p) ==
    IF p.Text[1] = "~" THEN stackStrike + Len(p.Text) - 1
    ELSE IF p.Text[1] = "'" THEN stackSingleQuote
    ELSE IF p.Text[1] = "\"" THEN stackDoubleQuote
    ELSE (IF p.Text[1] = "_" THEN stackUnder ELSE stackStar)
         + (IF p.canClose THEN 3 ELSE 0) + (p.n % 3)

\* unmatchedQuote with every quote rewritten to its right form
unmatchedQuoteRight(p) ==
    IF p.Text = <<"'">> THEN [p EXCEPT !.Text = <<RSQ>>]
    ELSE IF p.Text = <<"\"">> THEN [p EXCEPT !.Text = <<RDQ>>]
    ELSE p

\* "Rewrite unmatched quotes to right quotes."
unmatchedQuote(p) ==
    IF p.Text = <<"'">> THEN [p EXCEPT !.Text = <<RSQ>>]
    ELSE IF p.Text = <<"\"">> THEN [p EXCEPT !.Text = IF p.canClose THEN <<RDQ>> ELSE <<LDQ>>]
    ELSE p

\* the EmitPlain label of emph: [dst, stk]
emitPlain(dst, stk, p) ==
    IF p.canOpen
    THEN [dst |-> Append(dst, unmatchedQuote([p EXCEPT !.i = Len(dst)])),
          stk |-> PushStack(stk, openStack(p), Len(dst))]
    ELSE [dst |-> Append(dst, Plain(unmatchedQuote(p).Text)), stk |-> stk]

\* a closer that stops after its first match: what is left of it is text
closeEmphOnce(dst, stk, p) ==
    IF p.Text[1] \in {"\"", "'"}
    THEN Bind(IF p.Text[1] = "'" THEN stackSingleQuote ELSE stackDoubleQuote, LAMBDA si :
         Bind(stk[si], LAMBDA one :
         IF Len(one) = 0 THEN emitPlain(dst, stk, p)
         ELSE [dst |-> Append([dst EXCEPT ![one[Len(one)] + 1].Text =
                                    IF p.Text[1] = "'" THEN <<LSQ>> ELSE <<LDQ>>],
                              Plain(IF p.Text[1] = "'" THEN <<RSQ>> ELSE <<RDQ>>)),
               stk |-> [stk EXCEPT ![si] = SubSeq(one, 1, Len(one) - 1)]]))
    ELSE
    Bind(findStart(dst, stk, p), LAMBDA si :
    IF si = -1 THEN emitPlain(dst, stk, p)
    ELSE
    Bind(dst[si + 1], LAMBDA start :
    Bind(IF Len(p.Text) >= 2 /\ Len(start.Text) >= 2 THEN 2 ELSE 1, LAMBDA d :
    Bind([kind |-> emphKind(p.Text[1] = "~", d), Marker |-> SubSeq(p.Text, 1, d),
          Inner |-> mergePlain(SubSeq(dst, si + 2, Len(dst)))],
         LAMBDA x :
    Bind(SubSeq(start.Text, 1, Len(start.Text) - d), LAMBDA startText :
    Bind(IF startText = <<>> THEN SubSeq(dst, 1, si)
         ELSE [SubSeq(dst, 1, si + 1) EXCEPT ![si + 1].Text = startText],
         LAMBDA dst1 :
    Bind([p EXCEPT !.Text = SubSeq(@, d + 1, Len(@))], LAMBDA p1 :
    IF p1.Text = <<>> THEN [dst |-> Append(dst1, x), stk |-> PopStacks(stk, Len(dst1))]
    ELSE emitPlain(Append(dst1, x), PopStacks(stk, Len(dst1)),
                   [p1 EXCEPT !.canOpen = FALSE]))))))))

RECURSIVE closeEmph(_, _, _)
\* the PText label of emph for a closer p: [dst, stk]
closeEmph(dst, stk, p) ==
    IF p.Text[1] \in {"\"", "'"}
    THEN Bind(IF p.Text[1] = "'" THEN stackSingleQuote ELSE stackDoubleQuote, LAMBDA si :
         Bind(stk[si], LAMBDA one :
         IF Len(one) = 0 THEN emitPlain(dst, stk, p)
         ELSE [dst |-> Append([dst EXCEPT ![one[Len(one)] + 1].Text =
                                    IF p.Text[1] = "'" THEN <<LSQ>> ELSE <<LDQ>>],
                              Plain(IF p.Text[1] = "'" THEN <<RSQ>> ELSE <<RDQ>>)),
               stk |-> [stk EXCEPT ![si] = SubSeq(one, 1, Len(one) - 1)]]))
    ELSE
    Bind(findStart(dst, stk, p), LAMBDA si :
    IF si = -1 THEN emitPlain(dst, stk, p)
    ELSE
    Bind(dst[si + 1], LAMBDA start :
    Bind(IF Len(p.Text) >= 2 /\ Len(start.Text) >= 2 THEN 2 ELSE 1, LAMBDA d :
    Bind([kind |-> emphKind(p.Text[1] = "~", d), Marker |-> SubSeq(p.Text, 1, d),
          Inner |-> mergePlain(SubSeq(dst, si + 2, Len(dst)))],
         LAMBDA x :
    Bind(SubSeq(start.Text, 1, Len(start.Text) - d), LAMBDA startText :
    Bind(IF startText = <<>> THEN SubSeq(dst, 1, si)
         ELSE [SubSeq(dst, 1, si + 1) EXCEPT ![si + 1].Text = startText],
         LAMBDA dst1 :
    Bind([p EXCEPT !.Text = SubSeq(@, d + 1, Len(@))], LAMBDA p1 :
    IF p1.Text = <<>> THEN [dst |-> Append(dst1, x), stk |-> PopStacks(stk, Len(dst1))]
    ELSE closeEmph(Append(dst1, x), PopStacks(stk, Len(dst1)), p1))))))))

RECURSIVE emphLoop(_, _, _, _)
emphLoop(src, i, dst, stk) ==
    IF i >= Len(src) THEN mergePlain(dst)
    ELSE
    Bind(src[i + 1], LAMBDA inl :
    IF inl.kind # "emphPlain"
    THEN emphLoop(src, i + 1,
                  Append(dst, IF inl.kind = "openPlain" THEN Plain(inl.Text) ELSE inl), stk)
    ELSE Bind(IF inl.canClose THEN closeEmph(dst, stk, inl) ELSE emitPlain(dst, stk, inl),
              LAMBDA r : emphLoop(src, i + 1, r.dst, r.stk)))

emph(dst, src) == emphLoop(src, 0, dst, EmptyStacks)

\* parser.emit on the scan state st = [list, emitted, opens, ignoreLinkBefore, corner]
emit(st, s, i) ==
    IF st.emitted < i
    THEN [st EXCEPT !.list = Append(@, Plain(Slice(s, st.emitted, i))), !.emitted = i]
    ELSE st

\* An inlineParser returns [x, end, ok, st]; st differs from its argument
\* only where the parser itself emits or sets p.corner.
NoInline(st) == [x |-> Nil, end |-> 0, ok |-> FALSE, st |-> st]

parseEscape(s, start, st) ==
    IF start + 1 < Len(s) /\ isPunct(At(s, start + 1))
    THEN [x |-> [kind |-> "Escaped", Text |-> <<At(s, start + 1)>>], end |-> start + 2,
          ok |-> TRUE, st |-> st]
    ELSE IF start + 1 < Len(s) /\ At(s, start + 1) = "\n"
    THEN [x |-> [kind |-> "HardBreak"], end |-> start + 2, ok |-> TRUE,
          st |-> IF start > 0 /\ At(s, start - 1) = "\\" THEN [st EXCEPT !.corner = TRUE] ELSE st]
    ELSE NoInline(st)

RECURSIVE backUpSpaces(_, _)
backUpSpaces(s, i) ==
    IF i > 0 /\ At(s, i - 1) \in {" ", "\t"} THEN backUpSpaces(s, i - 1) ELSE i

parseBreak(s, start, st) ==
    LET break(i) ==
            [x |-> IF start >= 2 /\ At(s, start - 1) = " " /\ At(s, start - 2) = " "
                   THEN [kind |-> "HardBreak"] ELSE [kind |-> "SoftBreak"],
             end |-> start + 1, ok |-> TRUE,
             st |-> IF i < start THEN [emit(st, s, i) EXCEPT !.emitted = start] ELSE st]
    IN break(backUpSpaces(s, start))

parseFootnoteRef(cfg, notes, s, start, st) ==
    IF ~cfg.Footnote \/ start + 1 >= Len(s) \/ At(s, start + 1) # "^" THEN NoInline(st)
    ELSE
    Bind(IndexFrom(s, "]", start), LAMBDA e :
    IF e < 0 THEN NoInline(st)
    ELSE
    Bind(Slice(s, start + 2, e), LAMBDA label :
    Bind(normalizeLabel(label), LAMBDA key :
    IF key \notin DOMAIN notes THEN NoInline(st)
    ELSE [x |-> [kind |-> "FootnoteLink", Label |-> label, Footnote |-> key],
          end |-> e + 1, ok |-> TRUE, st |-> st])))

parseLinkOpen(cfg, notes, s, start, st) ==
    Bind(parseFootnoteRef(cfg, notes, s, start, st), LAMBDA r :
    IF cfg.Footnote /\ r.ok THEN r
    ELSE [x |-> [kind |-> "openPlain", Text |-> <<"[">>, i |-> start + 1],
          end |-> start + 1, ok |-> TRUE, st |-> st])

parseImageOpen(s, start, st) ==
    IF start + 1 < Len(s) /\ At(s, start + 1) = "["
    THEN [x |-> [kind |-> "openPlain", Text |-> <<"!", "[">>, i |-> start + 2],
          end |-> start + 2, ok |-> TRUE, st |-> st]
    ELSE NoInline(st)

RECURSIVE runEnd(_, _, _)
runEnd(s, c, e) == IF e < Len(s) /\ At(s, e) = c THEN runEnd(s, c, e + 1) ELSE e

parseEmph(s, start, st) ==
    Bind(At(s, start), LAMBDA c :
    Bind(IF c \in {"*", "~", "_"} THEN runEnd(s, c, start + 1) ELSE start + 1, LAMBDA e :
    Bind(IF start > 0 THEN At(s, start - 1) ELSE " ", LAMBDA before :
    Bind(IF e < Len(s) THEN At(s, e) ELSE " ", LAMBDA after :
    Bind(/\ ~isUnicodeSpace(after)
         /\ (~isUnicodePunct(after) \/ isUnicodeSpace(before) \/ isUnicodePunct(before)),
         LAMBDA leftFlank :
    Bind(/\ ~isUnicodeSpace(before)
         /\ (~isUnicodePunct(before) \/ isUnicodeSpace(after) \/ isUnicodePunct(after)),
         LAMBDA rightFlank :
    [x |-> IF c = "~" /\ e - start > 2 THEN Plain(Slice(s, start, e))
           ELSE [kind |-> "emphPlain", Text |-> Slice(s, start, e),
                 canOpen |-> IF c \in {"'", "\""}
                             THEN leftFlank /\ ~rightFlank /\ before # "]" /\ before # ")"
                             ELSE IF c = "_"
                                  THEN leftFlank /\ (~rightFlank \/ isUnicodePunct(before))
                             ELSE leftFlank,
                 canClose |-> IF c = "_"
                              THEN rightFlank /\ (~leftFlank \/ isUnicodePunct(after))
                              ELSE rightFlank,
                 i |-> 0, n |-> e - start],
     end |-> e, ok |-> TRUE,
     st |-> IF c = "~" /\ e - start # 2 THEN [st EXCEPT !.corner = TRUE] ELSE st]))))))

\* "the maximum number of backticks allowed for an inline code span"
maxBackticks == 80

\* backtickParser after reset
NoBackticks == [last |-> [k \in 0..(maxBackticks - 1) |-> 0], scanned |-> FALSE]

\* the text of a matched code span: line endings become spaces, and one
\* space is removed from each end when the text starts and ends with a
\* space and is not all spaces
codeText(raw) ==
    Bind([k \in 1..Len(raw) |-> IF raw[k] = "\n" THEN " " ELSE raw[k]], LAMBDA t :
    IF Len(t) >= 2 /\ t[1] = " " /\ t[Len(t)] = " " /\ trimSpaceTab(t) # <<>>
    THEN SubSeq(t, 2, Len(t) - 1)
    ELSE t)

RECURSIVE codeSpanLoop(_, _, _, _, _)
\* the scan of parseCodeSpan for a closing run of n backticks, from end
codeSpanLoop(s, start, n, end, st) ==
    IF end >= Len(s)
    THEN [x |-> Plain(Slice(s, start, start + n)), end |-> start + n, ok |-> TRUE,
          st |-> [st EXCEPT !.backticks.scanned = TRUE]]
    ELSE IF At(s, end) # Backtick THEN codeSpanLoop(s, start, n, end + 1, st)
    ELSE
    Bind(runEnd(s, Backtick, end), LAMBDA e :
    Bind(IF ~st.backticks.scanned /\ e - end < maxBackticks
         THEN [st EXCEPT !.backticks.last[e - end - 1] = end] ELSE st, LAMBDA st1 :
    IF e - end = n
    THEN [x |-> [kind |-> "Code", Text |-> codeText(Slice(s, start + n, end))],
          end |-> e, ok |-> TRUE, st |-> st1]
    ELSE codeSpanLoop(s, start, n, e, st1)))

\* backtickParser.parseCodeSpan
parseCodeSpan(s, start, st) ==
    Bind(runEnd(s, Backtick, start + 1) - start, LAMBDA n :
    IF n > maxBackticks \/ (st.backticks.scanned /\ st.backticks.last[n - 1] < start + n)
    THEN [x |-> Plain(Slice(s, start, start + n)), end |-> start + n, ok |-> TRUE, st |-> st]
    ELSE codeSpanLoop(s, start, n, start + n, st))

\* the zero lineInfo, "p.lineInfo = lineInfo{}"
NoLineInfo ==
    [noDeclEnd |-> FALSE, noCommentEnd |-> FALSE, noProcInstEnd |-> FALSE,
     noCDATAEnd |-> FALSE]

HTMLTag(txt) == [kind |-> "HTMLTag", Text |-> txt]

isLetterDigit(c) == isLetter(c) \/ c \in DigitChars

isLDH(c) == isLetterDigit(c) \/ c = "-"

isScheme(c) == isLetterDigit(c) \/ c \in {"+", ".", "-"}

isURL(c) == c \notin {" ", "\t", "\n", "<", ">"}

isUser(c) ==
    \/ isLetterDigit(c)
    \/ c \in {"!", "#", "$", "%", "&", "'", "*", "+", "-", ".", "/", "=", "?", "^", "_",
              Backtick, "{", "|", "}", "~"}

RECURSIVE schemeEnd(_, _, _)
schemeEnd(s, i, j) ==
    IF j < Len(s) /\ isScheme(At(s, j)) /\ j - (i + 1) <= 32 THEN schemeEnd(s, i, j + 1) ELSE j

RECURSIVE urlEnd(_, _)
urlEnd(s, j) == IF j < Len(s) /\ isURL(At(s, j)) THEN urlEnd(s, j + 1) ELSE j

parseAutoLinkURI(s, i, st) ==
    IF i + 1 >= Len(s) \/ At(s, i) # "<" \/ ~isLetter(At(s, i + 1)) THEN NoInline(st)
    ELSE
    Bind(schemeEnd(s, i, i + 1), LAMBDA j :
    IF j - (i + 1) < 2 \/ j - (i + 1) > 32 \/ j >= Len(s) \/ At(s, j) # ":" THEN NoInline(st)
    ELSE
    Bind(urlEnd(s, j + 1), LAMBDA e :
    IF e >= Len(s) \/ At(s, e) # ">" THEN NoInline(st)
    ELSE [x |-> [kind |-> "AutoLink", Text |-> Slice(s, i + 1, e), URL |-> Slice(s, i + 1, e)],
          end |-> e + 1, ok |-> TRUE, st |-> st]))

RECURSIVE userEnd(_, _)
userEnd(s, j) == IF j < Len(s) /\ isUser(At(s, j)) THEN userEnd(s, j + 1) ELSE j

RECURSIVE domainEnd(_, _, _)
domainEnd(s, j, i) ==
    IF j + i < Len(s) /\ isLDH(At(s, j + i)) /\ i <= 63 THEN domainEnd(s, j, i + 1) ELSE i

\* skipDomainElem(s[j:]): the length of the domain element, or -1
skipDomainElem(s, j) ==
    IF j >= Len(s) \/ ~isLetterDigit(At(s, j)) THEN -1
    ELSE Bind(domainEnd(s, j, 1), LAMBDA i :
         IF i > 63 \/ ~isLetterDigit(At(s, j + i - 1)) THEN -1 ELSE i)

RECURSIVE emailDomain(_, _)
\* the domain loop of parseAutoLinkEmail, from the "@" or "." at j: the
\* position of the closing ">", or -1
emailDomain(s, j) ==
    Bind(skipDomainElem(s, j + 1), LAMBDA n :
    IF n < 0 THEN -1
    ELSE IF j + 1 + n >= Len(s) \/ At(s, j + 1 + n) \notin {".", ">"} THEN -1
    ELSE IF At(s, j + 1 + n) = ">" THEN j + 1 + n
    ELSE emailDomain(s, j + 1 + n))

parseAutoLinkEmail(s, i, st) ==
    IF i + 1 >= Len(s) \/ At(s, i) # "<" \/ ~isUser(At(s, i + 1)) THEN NoInline(st)
    ELSE
    Bind(userEnd(s, i + 1), LAMBDA j :
    IF j >= Len(s) \/ At(s, j) # "@" THEN NoInline(st)
    ELSE
    Bind(emailDomain(s, j), LAMBDA e :
    IF e < 0 THEN NoInline(st)
    ELSE [x |-> [kind |-> "AutoLink", Text |-> Slice(s, i + 1, e),
                 URL |-> <<"m", "a", "i", "l", "t", "o", ":">> \o Slice(s, i + 1, e)],
          end |-> e + 1, ok |-> TRUE, st |-> st]))

RECURSIVE Index(_, _, _)
\* start + strings.Index(s[start:], sub), or -1
Index(s, sub, start) ==
    IF start + Len(sub) > Len(s) THEN -1
    ELSE IF Slice(s, start, start + Len(sub)) = sub THEN start
    ELSE Index(s, sub, start + 1)

\* the flag of parseHTMLMarker's first switch on suffix[0]
noEnd(info, suffix) ==
    CASE suffix[1] = "]" -> info.noCDATAEnd
      [] suffix[1] = ">" -> info.noDeclEnd
      [] suffix[1] = "-" -> info.noCommentEnd
      [] suffix[1] = "?" -> info.noProcInstEnd
      [] OTHER -> FALSE

\* the flags after a failed search for suffix: "p.noDeclEnd = true" and
\* the second switch on suffix[0]
setNoEnd(info, suffix) ==
    [noDeclEnd |-> TRUE,
     noCDATAEnd |-> info.noCDATAEnd \/ suffix[1] = "]",
     noCommentEnd |-> info.noCommentEnd \/ suffix[1] = "-",
     noProcInstEnd |-> info.noProcInstEnd \/ suffix[1] = "?"]

parseHTMLMarker(s, start, prefix, suffix, st) ==
    IF ~HasPrefix(From(s, start), prefix) THEN NoInline(st)
    ELSE IF noEnd(st.lineInfo, suffix) THEN NoInline(st)
    ELSE
    Bind(Index(s, suffix, start + Len(prefix)), LAMBDA i :
    IF i >= 0
    THEN [x |-> HTMLTag(Slice(s, start, i + Len(suffix))), end |-> i + Len(suffix),
          ok |-> TRUE, st |-> st]
    ELSE NoInline([st EXCEPT !.lineInfo = setNoEnd(@, suffix)]))

parseHTMLComment(s, start, st) ==
    IF HasPrefix(From(s, start), <<"<", "!", "-", "-", ">">>)
    THEN [x |-> HTMLTag(Slice(s, start, start + 5)), end |-> start + 5, ok |-> TRUE, st |-> st]
    ELSE IF HasPrefix(From(s, start), <<"<", "!", "-", "-", "-", ">">>)
    THEN [x |-> HTMLTag(Slice(s, start, start + 6)), end |-> start + 6, ok |-> TRUE, st |-> st]
    ELSE parseHTMLMarker(s, start, <<"<", "!", "-", "-">>, <<"-", "-", ">">>, st)

parseHTMLCDATA(s, i, st) ==
    parseHTMLMarker(s, i, <<"<", "!", "[", "C", "D", "A", "T", "A", "[">>, <<"]", "]", ">">>, st)

parseHTMLDecl(s, i, st) ==
    IF i + 2 < Len(s) /\ isLetter(At(s, i + 2))
    THEN parseHTMLMarker(s, i, <<"<", "!">>, <<">">>,
                         [st EXCEPT !.corner = @ \/ (\E k \in 1..Len(LowerChars) :
                                                        LowerChars[k] = At(s, i + 2))])
    ELSE NoInline(st)

parseHTMLProcInst(s, i, st) == parseHTMLMarker(s, i, <<"<", "?">>, <<"?", ">">>, st)

\* parseHTMLTag; parseHTMLOpenTag and parseHTMLClosingTag are not modelled
parseHTMLTag(s, start, st) ==
    IF Len(s) - start < 3 \/ At(s, start) # "<" THEN NoInline(st)
    ELSE IF At(s, start + 1) = "!"
    THEN IF At(s, start + 2) = "-" THEN parseHTMLComment(s, start, st)
         ELSE IF At(s, start + 2) = "[" THEN parseHTMLCDATA(s, start, st)
         ELSE parseHTMLDecl(s, start, st)
    ELSE IF At(s, start + 1) = "?" THEN parseHTMLProcInst(s, start, st)
    ELSE NoInline(st)

parseAutoLinkOrHTML(s, start, st) ==
    IF parseAutoLinkURI(s, start, st).ok THEN parseAutoLinkURI(s, start, st)
    ELSE IF parseAutoLinkEmail(s, start, st).ok THEN parseAutoLinkEmail(s, start, st)
    ELSE parseHTMLTag(s, start, st)

\* the dispatch on s[off] at the top of the scan loop of inline
runParser(cfg, notes, s, off, st) ==
    Bind(At(s, off), LAMBDA c :
    IF c = "\\" THEN parseEscape(s, off, st)
    ELSE IF c = Backtick THEN parseCodeSpan(s, off, st)
    ELSE IF c = "<" THEN parseAutoLinkOrHTML(s, off, st)
    ELSE IF c = "[" THEN parseLinkOpen(cfg, notes, s, off, st)
    ELSE IF c = "!" THEN parseImageOpen(s, off, st)
    ELSE IF \/ c \in {"_", "*"}
            \/ c \in {"\"", "'"} /\ cfg.SmartQuote
            \/ c = "~" /\ cfg.Strikethrough
         THEN parseEmph(s, off, st)
    ELSE IF c = "\n" THEN parseBreak(s, off, st)
    ELSE NoInline(st))

isHexDigit(c) == c \in DigitChars \cup {"a", "b", "c", "d", "e", "f", "A", "B", "C", "D", "E", "F"}

badPercent(url) ==
    \E i \in 0..(Len(url) - 1) :
        /\ At(url, i) = "%"
        /\ (i + 2 >= Len(url) \/ ~isHexDigit(At(url, i + 1)) \/ ~isHexDigit(At(url, i + 2)))

\* the reference-link tail of parseLinkClose, [Text][] or [Text], with the
\* normalized label key
shortcutWith(links, s, i, corner, key) ==
    IF key \in DOMAIN links
    THEN [link |-> [kind |-> "Link", Inner |-> <<>>, URL |-> links[key].URL,
                    Title |-> links[key].Title, TitleChar |-> ""],
          end |-> IF HasPrefix(From(s, i + 1), <<"[", "]">>) THEN i + 3 ELSE i + 1,
          ok |-> TRUE, corner |-> corner]
    ELSE [link |-> Nil, end |-> 0, ok |-> FALSE, corner |-> corner]

shortcutLink(links, s, i, open, corner) ==
    shortcutWith(links, s, i, corner, normalizeLabel(Slice(s, open.i, i)))

\* the "case '['" of parseLinkClose after parseLinkLabel returned lab, whose
\* label normalizes to key: the link found, the failure, or the fall through
fullReference(links, lab, key) ==
    IF ~lab.ok THEN [short |-> TRUE, corner |-> lab.corner]
    ELSE [short |-> FALSE,
          res |-> IF key \in DOMAIN links
                  THEN [link |-> [kind |-> "Link", Inner |-> <<>>, URL |-> links[key].URL,
                                  Title |-> links[key].Title, TitleChar |-> ""],
                        end |-> lab.end, ok |-> TRUE, corner |-> FALSE]
                  ELSE [link |-> Nil, end |-> 0, ok |-> FALSE, corner |-> FALSE]]

\* parseLinkClose: [link, end, ok, corner]
parseLinkClose(links, s, start, open) ==
    LET \* a "return" of the function, or the fall through to the shortcut forms
        short(c) == [short |-> TRUE, corner |-> c]
        direct(res) == [short |-> FALSE, res |-> res]
    IN
    Bind(IF start + 1 < Len(s) /\ At(s, start + 1) = "("
         THEN Bind(skipSpace(s, start + 2), LAMBDA i0 :
              Bind(i0 < Len(s) /\ At(s, i0) # ")", LAMBDA hasDest :
              Bind(parseLinkDest(s, i0), LAMBDA d :
              IF hasDest /\ ~d.ok THEN short(FALSE)
              ELSE
              Bind(IF hasDest THEN skipSpace(s, d.end) ELSE i0, LAMBDA i1 :
              Bind(hasDest /\ i1 < Len(s) /\ At(s, i1) # ")", LAMBDA hasTitle :
              Bind(parseLinkTitle(s, i1), LAMBDA t :
              Bind(hasTitle /\ t.title = <<>>, LAMBDA corner :
              Bind(IF hasTitle THEN skipSpace(s, t.end) ELSE i1, LAMBDA i2 :
              IF hasTitle /\ ~t.found THEN short(corner)
              ELSE IF i2 < Len(s) /\ At(s, i2) = ")"
                   THEN direct([link |-> [kind |-> "Link", Inner |-> <<>>,
                                          URL |-> IF hasDest THEN d.dest ELSE <<>>,
                                          Title |-> IF hasTitle THEN t.title ELSE <<>>,
                                          TitleChar |-> IF hasTitle THEN t.char ELSE ""],
                                end |-> i2 + 1, ok |-> TRUE, corner |-> corner])
              ELSE short(corner)))))))))
         ELSE IF start + 1 < Len(s) /\ At(s, start + 1) = "["
         THEN Bind(parseLinkLabel(s, start + 1), LAMBDA lab :
              fullReference(links, lab, normalizeLabel(lab.label)))
         ELSE short(FALSE),
         LAMBDA o :
    IF o.short THEN shortcutLink(links, s, start, open, o.corner) ELSE o.res)

\* an opener that may become a link wherever it stands
linkAllowedAnywhere(open, ignoreLinkBefore) == TRUE

\* whether an opener at input position i may still become a link
linkAllowed(open, ignoreLinkBefore) == open.i >= ignoreLinkBefore \/ open.Text[1] = "!"

\* the inlines after the opener at index oi taken as they are, with their
\* delimiter runs as text
linkInnerUnresolved(list, oi) ==
    [k \in 1..(Len(list) - oi - 1) |->
        IF list[oi + 1 + k].kind \in {"openPlain", "emphPlain"}
        THEN Plain(list[oi + 1 + k].Text) ELSE list[oi + 1 + k]]

\* "x.Inner = p.emph(nil, p.list[oi+1:])": the text of a link or image is
\* the inlines after its opener, with emphasis applied to them alone
linkInner(list, oi) == emph(<<>>, SubSeq(list, oi + 2, Len(list)))

RECURSIVE scan(_, _, _, _, _, _)
\* the scan loop of inline
scan(cfg, links, notes, s, off, st) ==
    IF off >= Len(s) THEN st
    ELSE
    Bind(runParser(cfg, notes, s, off, st), LAMBDA r :
    IF r.ok
    THEN Bind(emit(r.st, s, off), LAMBDA st1 :
         scan(cfg, links, notes, s, r.end,
              [st1 EXCEPT !.opens = IF r.x.kind = "openPlain"
                                    THEN Append(@, Len(st1.list)) ELSE @,
                          !.list = Append(@, r.x),
                          !.emitted = r.end]))
    ELSE IF At(s, off) = "]" /\ Len(r.st.opens) > 0
    THEN Bind(r.st.opens[Len(r.st.opens)], LAMBDA oi :
         Bind([r.st EXCEPT !.opens = SubSeq(@, 1, Len(@) - 1)], LAMBDA st1 :
         Bind(r.st.list[oi + 1], LAMBDA open :
         IF ~linkAllowed(open, r.st.ignoreLinkBefore) THEN scan(cfg, links, notes, s, off + 1, st1)
         ELSE
         Bind(parseLinkClose(links, s, off, open), LAMBDA lc :
         IF ~lc.ok
         THEN scan(cfg, links, notes, s, off + 1, [st1 EXCEPT !.corner = @ \/ lc.corner])
         ELSE
         Bind(emit(st1, s, off), LAMBDA st2 :
         Bind([lc.link EXCEPT
                 !.kind = IF open.Text[1] = "!" THEN "Image" ELSE "Link",
                 !.Inner = linkInner(st2.list, oi)],
              LAMBDA x :
         scan(cfg, links, notes, s, lc.end,
              [st2 EXCEPT !.list = Append(SubSeq(st2.list, 1, oi), x),
                          !.emitted = lc.end,
                          !.ignoreLinkBefore = IF open.Text[1] = "[" THEN open.i ELSE @,
                          !.corner = @ \/ lc.corner \/ badPercent(x.URL)])))))))
    ELSE scan(cfg, links, notes, s, off + 1, r.st))

\* parser.inline: [list, corner].  The AutoLinkText extension is off.
inline(cfg, links, notes, s0) ==
    LET st0 == [list |-> <<>>, emitted |-> 0, opens |-> <<>>, ignoreLinkBefore |-> 0,
                corner |-> FALSE, backticks |-> NoBackticks,
                lineInfo |-> NoLineInfo]
    IN
    Bind(trimSpaceTab(s0), LAMBDA s :
    Bind(emit(scan(cfg, links, notes, s, 0, st0), s, Len(s)), LAMBDA st2 :
    [list |-> mergePlain(emph(<<>>, st2.list)), corner |-> st2.corner]))

\* ------------------------------------------------------------------------
\* HTML printing (ToHTML and the printHTML methods).  The printer is the
\* record [buf, footnotes, footnotelist, panic]; buf is a sequence whose
\* elements are markup literals and the bytes of escaped text.
\* ------------------------------------------------------------------------
NewPrinter == [buf |-> <<>>, footnotes |-> <<>>, footnotelist |-> <<>>, panic |-> ""]

html(pr, toks) == [pr EXCEPT !.buf = @ \o toks]

htmlEscaper(c) ==
    CASE c = "\"" -> "&quot;"
      [] c = "&" -> "&amp;"
      [] c = "<" -> "&lt;"
      [] c = ">" -> "&gt;"
      [] OTHER -> c

htmlLinkEscaper(c) ==
    CASE c = "\"" -> "%22"
      [] c = "&" -> "&amp;"
      [] c = "<" -> "&lt;"
      [] c = ">" -> "&gt;"
      [] c = "\\" -> "%5C"
      [] c = " " -> "%20"
      [] c = Backtick -> "%60"
      [] c = "[" -> "%5B"
      [] c = "]" -> "%5D"
      [] OTHER -> c

text(pr, str) == [pr EXCEPT !.buf = @ \o [k \in 1..Len(str) |-> htmlEscaper(str[k])]]

RECURSIVE printTextInlines(_, _)
\* Inlines.printText
printTextInlines(pr, xs) ==
    LET x == xs[1] IN
    IF Len(xs) = 0 THEN pr
    ELSE printTextInlines(
           CASE x.kind \in {"Plain", "Escaped", "Code"} -> text(pr, x.Text)
             [] x.kind \in {"HardBreak", "SoftBreak"} -> text(pr, <<"\n">>)
             [] x.kind \in {"Emph", "Strong", "Del", "Link", "Image"} ->
                    printTextInlines(pr, x.Inner)
             [] x.kind = "FootnoteLink" -> text(pr, <<"[", "^">> \o x.Label \o <<"]">>)
             [] x.kind = "AutoLink" -> text(pr, x.Text)
             [] x.kind = "HTMLTag" -> pr,
           Tail(xs))

\* Footnote.printed: the printer with the reference recorded
printed(pr, key) ==
    LET isNew == key \notin DOMAIN pr.footnotes
        record(note) ==
            [pr EXCEPT !.footnotes = [k \in (DOMAIN pr.footnotes) \cup {key} |->
                                         IF k = key THEN note ELSE pr.footnotes[k]],
                       !.footnotelist = IF isNew THEN Append(@, key) ELSE @]
        add(num, refs) ==
            record([num |-> num,
                    refs |-> Append(refs,
                                    IF Len(refs) > 0
                                    THEN <<ToString(num), "-", ToString(Len(refs) + 1)>>
                                    ELSE <<ToString(num)>>)])
    IN add(IF isNew THEN Cardinality(DOMAIN pr.footnotes) + 1 ELSE pr.footnotes[key].num,
           IF isNew THEN <<>> ELSE pr.footnotes[key].refs)

RECURSIVE printInlines(_, _)
\* Inlines.printHTML
printInlines(pr, xs) ==
    LET x == xs[1]
        attr(p1, name, value) ==
            IF value # <<>>
            THEN html(p1, <<name>> \o [k \in 1..Len(value) |-> htmlEscaper(value[k])]
                          \o <<"\"">>)
            ELSE p1
        alt(p1, str) ==
            html(p1, [k \in 1..Len(str) |-> IF str[k] = "\n" THEN " " ELSE str[k]] \o <<"\"">>)
        sup(p1, n) ==
            html(p1, <<"<sup class=\"fn\"><a id=\"fnref-">> \o n.refs[Len(n.refs)]
                     \o <<"\" href=\"#fn-", ToString(n.num), "\">", ToString(n.num),
                          "</a></sup>">>)
    IN
    IF Len(xs) = 0 THEN pr
    ELSE
    printInlines(
      CASE x.kind \in {"Plain", "Escaped"} -> text(pr, x.Text)
        [] x.kind = "Code" -> html(text(html(pr, <<"<code>">>), x.Text), <<"</code>">>)
        [] x.kind = "HardBreak" -> html(pr, <<"<br />\n">>)
        [] x.kind = "SoftBreak" -> html(pr, <<"\n">>)
        [] x.kind = "Emph" -> html(printInlines(html(pr, <<"<em>">>), x.Inner), <<"</em>">>)
        [] x.kind = "Strong" ->
               html(printInlines(html(pr, <<"<strong>">>), x.Inner), <<"</strong>">>)
        [] x.kind = "Del" -> html(printInlines(html(pr, <<"<del>">>), x.Inner), <<"</del>">>)
        [] x.kind = "Link" ->
               html(printInlines(
                      html(attr(html(pr, <<"<a href=\"">>
                                         \o [k \in 1..Len(x.URL) |-> htmlLinkEscaper(x.URL[k])]
                                         \o <<"\"">>),
                                " title=\"", x.Title),
                           <<">">>),
                      x.Inner),
                    <<"</a>">>)
        [] x.kind = "Image" ->
               html(attr(alt(html(pr, <<"<img src=\"">>
                                      \o [k \in 1..Len(x.URL) |-> htmlLinkEscaper(x.URL[k])]
                                      \o <<"\" alt=\"">>),
                             printTextInlines([pr EXCEPT !.buf = <<>>], x.Inner).buf),
                         " title=\"", x.Title),
                    <<" />">>)
        [] x.kind = "FootnoteLink" ->
               Bind(printed(pr, x.Footnote), LAMBDA p1 : sup(p1, p1.footnotes[x.Footnote]))
        [] x.kind = "AutoLink" ->
               html(text(html(pr, <<"<a href=\"">>
                                  \o [k \in 1..Len(x.URL) |-> htmlLinkEscaper(x.URL[k])]
                                  \o <<"\">">>),
                         x.Text),
                    <<"</a>">>)
        [] x.kind = "HTMLTag" -> html(pr, x.Text),
      Tail(xs))

\* Heading.level
level(h) == IF h.Level < 1 THEN 1 ELSE IF h.Level > 6 THEN 6 ELSE h.Level

RECURSIVE firstWord(_)
\* the info string up to its first Unicode space
firstWord(info) ==
    IF Len(info) = 0 \/ isUnicodeSpace(info[1]) THEN <<>>
    ELSE <<info[1]>> \o firstWord(Tail(info))

RECURSIVE printCells(_, _, _, _, _)
\* the cell loops of Table.printHTML; guarded is FALSE for the header row,
\* where t.Align[i] is read without a test of i
printCells(pr, cells, i, align, guarded) ==
    IF pr.panic # "" \/ i >= Len(cells) THEN pr
    ELSE IF ~guarded /\ i >= Len(align)
         THEN [pr EXCEPT !.panic = "Table.printHTML: index out of range"]
    ELSE
    Bind(html(pr, <<IF guarded THEN "<td" ELSE "<th">>), LAMBDA p1 :
    Bind(IF i < Len(align) /\ align[i + 1] # ""
         THEN html(p1, <<" align=\"", align[i + 1], "\"">>) ELSE p1,
         LAMBDA p2 :
    printCells(html(printInlines(html(p2, <<">">>), cells[i + 1].Inline),
                    <<IF guarded THEN "</td>\n" ELSE "</th>\n">>),
               cells, i + 1, align, guarded)))

RECURSIVE printRows(_, _, _)
printRows(pr, rows, align) ==
    IF pr.panic # "" \/ Len(rows) = 0 THEN pr
    ELSE printRows(html(printCells(html(pr, <<"<tr>\n">>), rows[1], 0, align, TRUE),
                        <<"</tr>\n">>),
                   Tail(rows), align)

RECURSIVE printHTML(_, _)
RECURSIVE printBlocks(_, _)
RECURSIVE printItemBlocks(_, _, _)

printBlocks(pr, bs) ==
    IF pr.panic # "" \/ Len(bs) = 0 THEN pr ELSE printBlocks(printHTML(pr, bs[1]), Tail(bs))

\* the loop of Item.printHTML
printItemBlocks(pr, bs, i) ==
    IF pr.panic # "" \/ i >= Len(bs) THEN pr
    ELSE Bind(printHTML(pr, bs[i + 1]), LAMBDA p1 :
         printItemBlocks(IF i + 1 < Len(bs) /\ bs[i + 1].kind = "Text"
                         THEN html(p1, <<"\n">>) ELSE p1,
                         bs, i + 1))

\* Block.printHTML
printHTML(pr, b) ==
    IF pr.panic # "" THEN pr
    ELSE
    CASE b.kind = "Document" -> printBlocks(pr, b.Blocks)
      [] b.kind = "Empty" -> pr
      [] b.kind = "Text" -> printInlines(pr, b.Inline)
      [] b.kind = "Paragraph" ->
             html(printInlines(html(pr, <<"<p>">>), b.Text.Inline), <<"</p>\n">>)
      [] b.kind = "Heading" ->
             html(printInlines(html(pr, <<"<h", ToString(level(b)), ">">>), b.Text.Inline),
                  <<"</h", ToString(level(b)), ">\n">>)
      [] b.kind = "Quote" ->
             html(printBlocks(html(pr, <<"<blockquote>\n">>), b.Blocks), <<"</blockquote>\n">>)
      [] b.kind = "List" ->
             Bind(b.Bullet \in {".", ")"}, LAMBDA ordered :
             html(printBlocks(html(pr, IF ~ordered THEN <<"<ul>\n">>
                                       ELSE IF b.Start # 1
                                            THEN <<"<ol", " start=\"", ToString(b.Start), "\"",
                                                   ">\n">>
                                       ELSE <<"<ol", ">\n">>),
                              b.Items),
                  <<IF ordered THEN "</ol>\n" ELSE "</ul>\n">>))
      [] b.kind = "Item" ->
             Bind(html(pr, <<"<li>">>), LAMBDA p1 :
             html(printItemBlocks(IF Len(b.Blocks) > 0 /\ b.Blocks[1].kind # "Text"
                                  THEN html(p1, <<"\n">>) ELSE p1,
                                  b.Blocks, 0),
                  <<"</li>\n">>))
      [] b.kind = "CodeBlock" ->
             Bind(html(pr, <<"<pre><code">>), LAMBDA p1 :
             html(text(html(IF b.Info # <<>>
                            THEN html(text(html(p1, <<" class=\"language-">>),
                                           firstWord(b.Info)),
                                      <<"\"">>)
                            ELSE p1,
                            <<">">>),
                       Concat([k \in 1..Len(b.Text) |-> b.Text[k] \o <<"\n">>])),
                  <<"</code></pre>\n">>))
      [] b.kind = "ThematicBreak" -> html(pr, <<"<hr />\n">>)
      [] b.kind = "Table" ->
             Bind(printCells(html(pr, <<"<table>\n", "<thead>\n", "<tr>\n">>),
                             b.Header, 0, b.Align, FALSE),
                  LAMBDA p2 :
             IF p2.panic # "" THEN p2
             ELSE
             Bind(html(p2, <<"</tr>\n", "</thead>\n">>), LAMBDA p3 :
             Bind(IF Len(b.Rows) > 0
                  THEN html(printRows(html(p3, <<"<tbody>\n">>), b.Rows, b.Align),
                            <<"</tbody>\n">>)
                  ELSE p3,
                  LAMBDA p4 :
             IF p4.panic # "" THEN p4 ELSE html(p4, <<"</table>\n">>))))

closeP == "</p>\n"

\* the arrow character of a footnote back-reference
ReturnArrow == "U+21A9"

RECURSIVE printNotes(_, _, _, _)
\* the loop of printFootnoteHTML over the notes listed when it starts
printNotes(pr, notes, list, num) ==
    IF pr.panic # "" \/ num > Len(list) THEN pr
    ELSE
    Bind(printBlocks(html(pr, <<"<li id=\"fn-", ToString(num), "\">", "\n">>),
                     notes[list[num]].Blocks),
         LAMBDA p2 :
    IF p2.panic # "" THEN p2
    ELSE
    Bind(IF Len(p2.buf) > 0 /\ p2.buf[Len(p2.buf)] = closeP
         THEN [p2 EXCEPT !.buf = SubSeq(@, 1, Len(@) - 1)]
         ELSE html(p2, <<"<p>\n">>),
         LAMBDA p3 :
    Bind(p3.footnotes[list[num]].refs, LAMBDA refs :
    printNotes(html(html(p3, Concat([k \in 1..Len(refs) |->
                                <<"\n", "<a class=\"fnref\" href=\"#fnref-">> \o refs[k]
                                \o <<"\">", ReturnArrow, "</a>">>])),
                    <<"</p>\n", "</li>\n">>),
               notes, list, num + 1))))

printFootnoteHTML(pr, notes) ==
    IF pr.panic # "" \/ Len(pr.footnotelist) = 0 THEN pr
    ELSE Bind(printNotes(html(pr, <<"<div class=\"footnotes\">Footnotes</div>", "\n",
                                    "<ol>\n">>),
                         notes, pr.footnotelist, 1),
              LAMBDA p2 : IF p2.panic # "" THEN p2 ELSE html(p2, <<"</ol>\n">>))

\* ToHTML of a parsed document; notes are the footnotes its links point to
ToHTML(doc, notes) == printFootnoteHTML(printHTML(NewPrinter, doc), notes)

\* ------------------------------------------------------------------------
\* The end of parse (parse.go): inline parsing of every Text, then fixBlock.
\* ------------------------------------------------------------------------
RECURSIVE applyInline(_, _, _, _)
\* "for _, t := range ps.texts { t.Inline = ps.inline(t.raw) }" on one block
applyInline(cfg, links, notes, b) ==
    LET sub(c) == applyInline(cfg, links, notes, c)
        all(bs) == [k \in 1..Len(bs) |-> sub(bs[k])]
    IN
    CASE b.kind = "Text" ->
             [kind |-> "Text", pos |-> b.pos, Inline |-> inline(cfg, links, notes, b.raw).list]
      [] b.kind \in {"Paragraph", "Heading"} -> [b EXCEPT !.Text = sub(@)]
      [] b.kind \in {"Document", "Quote", "Item"} -> [b EXCEPT !.Blocks = all(@)]
      [] b.kind = "List" -> [b EXCEPT !.Items = all(@)]
      [] b.kind = "Table" ->
             [b EXCEPT !.Header = all(@), !.Rows = [k \in 1..Len(@) |-> all(@[k])]]
      [] OTHER -> b

RECURSIVE textCorner(_, _, _, _)
\* whether inline sets p.corner on some Text of the block
textCorner(cfg, links, notes, b) ==
    LET sub(c) == textCorner(cfg, links, notes, c)
        any(bs) == \E k \in 1..Len(bs) : sub(bs[k])
    IN
    CASE b.kind = "Text" -> inline(cfg, links, notes, b.raw).corner
      [] b.kind \in {"Paragraph", "Heading"} -> sub(b.Text)
      [] b.kind \in {"Document", "Quote", "Item"} -> any(b.Blocks)
      [] b.kind = "List" -> any(b.Items)
      [] b.kind = "Table" -> any(b.Header) \/ \E k \in 1..Len(b.Rows) : any(b.Rows[k])
      [] OTHER -> FALSE

RECURSIVE fixBlock(_)
\* fixBlock and fixBlocks: Empty blocks are dropped from the children of a
\* Document, a Quote and an Item
fixBlock(x) ==
    LET fixBlocks(bs) ==
            SelectSeq([k \in 1..Len(bs) |-> fixBlock(bs[k])], LAMBDA c : c.kind # "Empty")
    IN
    CASE x.kind \in {"Document", "Quote", "Item"} -> [x EXCEPT !.Blocks = fixBlocks(@)]
      [] x.kind = "List" -> [x EXCEPT !.Items = [k \in 1..Len(@) |-> fixBlock(@[k])]]
      [] OTHER -> x

\* the part of parse after the line loop
finish(P) ==
    Bind(trimStack(P, 0), LAMBDA P1 :
    IF P1.panic # "" THEN P1
    ELSE
    [P1 EXCEPT
       !.root = fixBlock(applyInline(P1.cfg, P1.links, P1.footnotes, P1.root)),
       !.footnotes = [k \in DOMAIN P1.footnotes |->
                         [P1.footnotes[k] EXCEPT !.Blocks =
                             [j \in 1..Len(@) |->
                                 applyInline(P1.cfg, P1.links, P1.footnotes, @[j])]]],
       !.corner = \/ @
                  \/ textCorner(P1.cfg, P1.links, P1.footnotes, P1.root)
                  \/ \E k \in DOMAIN P1.footnotes :
                         \E j \in 1..Len(P1.footnotes[k].Blocks) :
                             textCorner(P1.cfg, P1.links, P1.footnotes,
                                        P1.footnotes[k].Blocks[j])])

\* ------------------------------------------------------------------------
\* Markdown printing (Format and the printMarkdown methods).  The printer is
\* the record [buf, prefix, trimLimit, tight, panic]; buf holds single bytes.
\* printMarkdown is modelled for Document, Paragraph, Text, Empty and
\* CodeBlock and for the inlines Plain, Escaped, Code, HardBreak, SoftBreak,
\* Emph, Strong and Del.  The documents printed define no links and hold no
\* footnote links, so printLinks and printFootnoteMarkdown print nothing.
\* ------------------------------------------------------------------------
NewMarkdownPrinter ==
    [buf |-> <<>>, prefix |-> <<>>, trimLimit |-> 0, tight |-> 0, panic |-> ""]

RECURSIVE trimTo(_, _)
\* the loop of printer.nl that drops the spaces after trimLimit
trimTo(buf, limit) ==
    IF Len(buf) > limit /\ buf[Len(buf)] = " "
    THEN trimTo(SubSeq(buf, 1, Len(buf) - 1), limit)
    ELSE buf

\* printer.nl
nl(pr) == [pr EXCEPT !.buf = trimTo(@, pr.trimLimit) \o <<"\n">> \o pr.prefix]

\* printer.noTrim
noTrim(pr) == [pr EXCEPT !.trimLimit = Len(pr.buf)]

RECURSIVE LastIndexNL(_, _)
\* bytes.LastIndexByte(text, '\n'), searching down from i
LastIndexNL(txt, i) ==
    IF i < 0 THEN -1 ELSE IF At(txt, i) = "\n" THEN i ELSE LastIndexNL(txt, i - 1)

cutLastNL(txt) ==
    Bind(LastIndexNL(txt, Len(txt) - 1), LAMBDA i :
    IF i < 0 THEN [prefix |-> <<>>, last |-> txt]
    ELSE [prefix |-> Slice(txt, 0, i), last |-> From(txt, i + 1)])

\* printer.maybeNL
maybeNL(pr) ==
    Bind(cutLastNL(pr.buf), LAMBDA c :
    Bind(cutLastNL(c.prefix), LAMBDA b :
    IF Len(pr.buf) > 0 /\ c.last = pr.prefix /\ HasPrefix(b.last, pr.prefix)
    THEN nl(pr) ELSE pr))

\* printer.md
md(pr, str) == [pr EXCEPT !.buf = @ \o str]

\* printer.WriteString and printer.WriteByte in Markdown mode
WriteString(pr, str) ==
    IF pr.panic # "" THEN pr
    ELSE IF Contains(str, "\n") THEN [pr EXCEPT !.panic = "Write \\n"]
    ELSE [pr EXCEPT !.buf = @ \o str]

RECURSIVE maxRunLoop(_, _, _, _, _)
\* the loop of maxRun: i is the index, n the current run, m the longest run
maxRunLoop(s, b, i, n, m) ==
    IF i >= Len(s) THEN m
    ELSE IF At(s, i) = b
         THEN maxRunLoop(s, b, i + 1, n + 1, IF n + 1 > m THEN n + 1 ELSE m)
    ELSE maxRunLoop(s, b, i + 1, 0, m)

\* maxRun: "the length of the longest run of b bytes in s"
maxRun(s, b) == maxRunLoop(s, b, 0, 0, 0)

\* printTicks: n backticks
printTicks(pr, n) == md(pr, [k \in 1..n |-> Backtick])

\* Code.printMarkdown
Code_printMarkdown(pr, x) ==
    Bind(maxRun(x.Text, Backtick) + 1, LAMBDA n :
    Bind(\/ Len(x.Text) = 0
         \/ x.Text[1] = Backtick
         \/ x.Text[Len(x.Text)] = Backtick, LAMBDA space :
    Bind(IF space THEN <<" ">> ELSE <<>>, LAMBDA sp :
    printTicks(WriteString(WriteString(WriteString(printTicks(pr, n), sp), x.Text), sp), n))))

RECURSIVE Plain_printMarkdown(_, _, _)
\* Plain.printMarkdown: the lines of the text, each followed by noTrim
Plain_printMarkdown(pr, txt, i) ==
    Bind(IndexFrom(txt, "\n", 0), LAMBDA e :
    Bind(IF i > 0 THEN nl(pr) ELSE pr, LAMBDA p1 :
    IF e < 0 THEN noTrim(WriteString(p1, txt))
    ELSE Plain_printMarkdown(noTrim(WriteString(p1, Slice(txt, 0, e))), From(txt, e + 1), i + 1)))

RECURSIVE printMarkdownInlines(_, _)
\* Inlines.printMarkdown
printMarkdownInlines(pr, xs) ==
    LET x == xs[1] IN
    IF Len(xs) = 0 THEN pr
    ELSE
    printMarkdownInlines(
      CASE x.kind = "Plain" -> Plain_printMarkdown(pr, x.Text, 0)
        [] x.kind = "Escaped" -> md(md(pr, <<"\\">>), x.Text)
        [] x.kind = "Code" -> Code_printMarkdown(pr, x)
        [] x.kind = "HardBreak" -> nl(md(pr, <<"\\">>))
        [] x.kind = "SoftBreak" -> nl(pr)
        [] x.kind \in {"Emph", "Strong"} ->
               md(printMarkdownInlines(md(pr, x.Marker), x.Inner), x.Marker)
        [] x.kind = "Del" ->
               WriteString(printMarkdownInlines(WriteString(pr, x.Marker), x.Inner), x.Marker)
        [] x.kind = "HTMLTag" -> Plain_printMarkdown(pr, x.Text, 0),
      Tail(xs))

RECURSIVE codeLines(_, _, _, _)
\* the loops of CodeBlock.printMarkdown over b.Text
codeLines(pr, lines, i, fenced) ==
    IF i > Len(lines) THEN pr
    ELSE codeLines(
           noTrim(md(IF fenced THEN nl(pr)
                     ELSE md(IF i > 1 THEN nl(pr) ELSE pr, <<" ", " ", " ", " ">>),
                     lines[i])),
           lines, i + 1, fenced)

RECURSIVE trimNewlines(_)
\* the buffer of Document.printMarkdown without the newlines at its end
trimNewlines(buf) ==
    IF Len(buf) > 0 /\ buf[Len(buf)] = "\n" THEN trimNewlines(SubSeq(buf, 1, Len(buf) - 1))
    ELSE buf

RECURSIVE printMarkdown(_, _)
RECURSIVE printMarkdownBlocks(_, _, _)
\* printMarkdownBlocks, from the block of index bn (from 0); p.loose is 0
\* outside a list
printMarkdownBlocks(pr, bs, bn) ==
    IF bn >= Len(bs) THEN pr
    ELSE printMarkdownBlocks(printMarkdown(IF bn > 0 THEN nl(pr) ELSE pr, bs[bn + 1]),
                             bs, bn + 1)

\* the printMarkdown methods of the blocks
printMarkdown(pr, b) ==
    CASE b.kind = "Document" ->
             Bind(printMarkdownBlocks(pr, b.Blocks, 0), LAMBDA p1 :
             Bind([p1 EXCEPT !.buf = trimNewlines(@)], LAMBDA p2 :
             IF Len(p2.buf) > 0 THEN nl(p2) ELSE p2))
      [] b.kind = "Empty" -> pr
      [] b.kind = "Text" -> printMarkdownInlines(pr, b.Inline)
      [] b.kind = "Paragraph" -> printMarkdownInlines(maybeNL(pr), b.Text.Inline)
      [] b.kind = "CodeBlock" ->
             IF b.Fence = <<>>
             THEN codeLines(maybeNL(pr), b.Text, 1, FALSE)
             ELSE md(nl(codeLines(md(md(IF pr.tight = 0 THEN maybeNL(pr) ELSE pr, b.Fence),
                                     b.Info),
                                  b.Text, 1, TRUE)),
                     b.Fence)

\* Format: the Markdown text of a document
Format(b) == printMarkdown(NewMarkdownPrinter, b)

\* ------------------------------------------------------------------------
\* Parse as one operator: the text is a sequence of bytes, cut into lines as
\* the loop of parse cuts it.
\* ------------------------------------------------------------------------
RECURSIVE textLines(_)
\* the lines of a text: [text, nl], nl empty for a last line without newline
textLines(txt) ==
    IF Len(txt) = 0 THEN <<>>
    ELSE
    Bind(IndexFrom(txt, "\n", 0), LAMBDA e :
    IF e < 0 THEN <<[text |-> txt, nl |-> ""]>>
    ELSE <<[text |-> Slice(txt, 0, e), nl |-> "\n"]>> \o textLines(From(txt, e + 1)))

\* the parser of a new call: "ps.lineDepth = -1; ps.addBlock(&rootBuilder{})"
NewParser(c) ==
    [cfg |-> c,
     stack |-> <<[builder |-> rootBuilder, inner |-> <<>>, pos |-> Pos(0, 0), id |-> 1]>>,
     lineDepth |-> -1, lineno |-> 0, links |-> NoLinks, footnotes |-> <<>>,
     corner |-> FALSE, root |-> Nil, panic |-> "",
     log |-> <<[op |-> "open", id |-> 1]>>]

RECURSIVE parseLines(_, _, _)
\* the line loop of parse from line k
parseLines(P, lines, k) ==
    IF P.panic # "" \/ k > Len(lines) THEN P
    ELSE parseLines(addLine([P EXCEPT !.lineno = @ + 1],
                            makeLine(lines[k].text, lines[k].nl)),
                    lines, k + 1)

\* Parser.parse
parse(c, txt) ==
    Bind(parseLines(NewParser(c), textLines(txt), 1), LAMBDA P :
    IF P.panic # "" THEN P ELSE finish(P))

\* ------------------------------------------------------------------------
\* The run of the model is one call of Parse followed by one call of ToHTML:
\* phase is "lines" while parse reads lines, "parsed" when Parse has
\* returned, "aborted" when it panicked, "printed" after ToHTML (panic then
\* tells whether ToHTML panicked).
\*
\* The inputs of the model.  An input is the sequence of the lines of the
\* text given to Parse, every line ended by "\n".  Each family of inputs is
\* the set of all texts of at most MaxLines lines drawn from a set of lines
\* chosen to exercise one part of the parser; the inline family is the set
\* of one-line texts made of at most MaxTokens tokens.
\* ------------------------------------------------------------------------
\* lines for lists, items and the blocks inside them
ListLines ==
    {<<"-", " ", "a">>,
     <<" ", " ", "b">>,
     <<>>,
     <<"*", " ", "a">>,
     <<" ", " ", "#", " ", "h">>,
     <<"-", " ", "[", "^", "n", "]", ":", " ", "x">>,
     <<"1", ".", " ", "a">>,
     <<" ", " ", " ", " ", "c">>,
     <<">", " ", "a">>,
     <<"-", "-", "-">>,
     <<"-">>}

\* lines for tables: headers, delimiter rows, rows
TableLines ==
    {<<"a", "|", "b">>,
     <<":", "-", " ", "-">>,
     <<"-", "|", "-">>,
     <<"c", "|", "d">>,
     <<"c", "|", "d", "|", "e">>,
     <<"|">>,
     <<>>,
     <<"a">>,
     <<"-", "|", "|">>}

\* lines for link reference definitions and their uses
LinkLines ==
    {<<"[", "a", "]", ":", " ", "/", "u">>,
     <<"[", "a", "]", ":", " ", "/", "v">>,
     <<"[", "A", "]", ":", " ", "/", "w">>,
     <<"[", "\\", "]", "]", ":", " ", "/", "u">>,
     <<"[", "b", "]", ":", " ", "/", "u", " ", "'", "t", "'">>,
     <<>>,
     <<"x", " ", "[", "a", "]">>,
     <<"=", "=", "=">>}

\* lines for footnotes and references to them
FootLines ==
    {<<"[", "^", "a", "]">>,
     <<"[", "^", "a", "]", ":", " ", "[", "b", "]", ":", " ", "c">>,
     <<"[", "^", "a", "]", ":", " ", "x">>,
     <<"x", "[", "^", "a", "]">>,
     <<>>,
     <<" ", " ", " ", " ", "y">>,
     <<"[", "b", "]", ":", " ", "c">>}

\* tokens of the inline family
Tokens == {<<"[">>, <<"!", "[">>, <<"]", "(", "u", ")">>, <<"a">>, <<"*">>}

RECURSIVE SeqsUpTo(_, _)
\* all sequences over S of length at most n
SeqsUpTo(S, n) ==
    IF n = 0 THEN {<<>>}
    ELSE LET r == SeqsUpTo(S, n - 1) IN
         r \cup {Append(q, x) : q \in {q0 \in r : Len(q0) = n - 1}, x \in S}

InlineTexts == {<<Concat(q)>> : q \in SeqsUpTo(Tokens, MaxTokens) \ {<<>>}}

Configs(tables, notes) ==
    {[Table |-> t, Footnote |-> f, SmartQuote |-> FALSE, Strikethrough |-> FALSE] :
        t \in tables, f \in notes}

\* tokens of the strikethrough family, parsed with Strikethrough on
StrikeTokens == {<<"~">>, <<"~", "~">>, <<"a">>, <<" ">>}

StrikeTexts == {<<Concat(q)>> : q \in SeqsUpTo(StrikeTokens, MaxStrike) \ {<<>>}}

StrikeConfigs == {[c EXCEPT !.Strikethrough = TRUE] : c \in Configs({FALSE}, {FALSE})}

\* the rows given to tableCount: every string of at most MaxRow characters
RowChars == {<<"|">>, <<"\\">>, <<"a">>, <<" ">>}

RowTexts == {<<Concat(q)>> : q \in SeqsUpTo(RowChars, MaxRow)}

\* labels that normalize to "a b": a short one, one of LabelLimit bytes and
\* one of LabelLimit + 1 bytes
ShortAB == <<"a", " ", "b">>

EdgeAB == <<"a">> \o [k \in 1..(LabelLimit - 2) |-> " "] \o <<"b">>

LongAB == <<"a">> \o [k \in 1..(LabelLimit - 1) |-> " "] \o <<"b">>

\* the link map after "[a b]: /u"
DefinedAB ==
    defineLink(NoLinks, <<"a", " ", "b">>,
               [URL |-> <<"/", "u">>, Title |-> <<>>, TitleChar |-> ""])

\* the calls of the label code: a link reference definition at the start of
\* a paragraph text, and parseLinkClose at the "]" of index start that
\* matches the opener at 0, for a full, a collapsed and a shortcut reference
LabelCalls ==
    UNION {{[mode |-> "definition", s |-> <<"[">> \o L \o <<"]", ":", " ", "/", "u">>,
             start |-> 0, links |-> NoLinks, len |-> Len(L)],
            [mode |-> "reference", s |-> <<"[", "x", "]", "[">> \o L \o <<"]">>,
             start |-> 2, links |-> DefinedAB, len |-> Len(L)],
            [mode |-> "reference", s |-> <<"[">> \o L \o <<"]", "[", "]">>,
             start |-> Len(L) + 1, links |-> DefinedAB, len |-> Len(L)],
            [mode |-> "reference", s |-> <<"[">> \o L \o <<"]">>,
             start |-> Len(L) + 1, links |-> DefinedAB, len |-> Len(L)]} :
           L \in {ShortAB, EdgeAB, LongAB}}

\* tokens of the emphasis family: the text "a***b* c*" in three tokens, an
\* opener with its word, and single delimiters, letters and spaces
EmphTokens ==
    {<<"a", "*", "*", "*">>, <<"b", "*">>, <<" ", "c", "*">>, <<"*", "a", " ">>,
     <<"*">>, <<"a">>, <<" ">>}

EmphTexts == {<<Concat(q)>> : q \in SeqsUpTo(EmphTokens, MaxEmph) \ {<<>>}}

\* bytes of the code span family: one-line texts of backquotes, spaces and
\* letters, which hold code spans, fences and indented code
CodeTokens == {<<Backtick>>, <<" ">>, <<"a">>}

CodeTexts == {<<Concat(q)>> : q \in SeqsUpTo(CodeTokens, MaxCode)}

\* a run of n backquotes
Ticks(n) == [k \in 1..n |-> Backtick]

\* tokens of the backtick run family: a run of 1, 2, 79, 80 or 81
\* backquotes followed by a letter, and a space.  Every text starts with a
\* letter, so that its line is a paragraph and never a code fence.
TickTokens ==
    {Ticks(n) \o <<"a">> : n \in {1, 2, maxBackticks - 1, maxBackticks, maxBackticks + 1}}
    \cup {<<" ">>}

TickTexts == {<<(<<"a">> \o Concat(q))>> : q \in SeqsUpTo(TickTokens, MaxTicks)}

\* lines for two calls that share one Parser: a link reference definition,
\* a footnote, and a list item that refers to both beside a code span
SharedLines ==
    {<<"[", "a", "]", ":", " ", "/", "u">>,
     <<"[", "^", "n", "]", ":", " ", "y">>,
     <<"-", " ", "[", "a", "]", " ", Backtick, "b", Backtick, "[", "^", "n", "]">>}

VARIABLES cfg, input, stack, lineDepth, lineno, links, footnotes, corner, root, panic,
          phase, out, again, peer, frame, log

vars == <<cfg, input, stack, lineDepth, lineno, links, footnotes, corner, root, panic,
          phase, out, again, peer, frame, log>>

\* no second call of Parse
NoPeer == [phase |-> "none"]

\* no call of the label code on its own
NoFrame == [pc |-> "none"]

\* the parser as a record, and the assignment of a record to the parser
PState ==
    [cfg |-> cfg, stack |-> stack, lineDepth |-> lineDepth, lineno |-> lineno,
     links |-> links, footnotes |-> footnotes, corner |-> corner, root |-> root,
     panic |-> panic, log |-> log]

SetP(q) ==
    /\ cfg' = q.cfg
    /\ stack' = q.stack
    /\ lineDepth' = q.lineDepth
    /\ lineno' = q.lineno
    /\ links' = q.links
    /\ footnotes' = q.footnotes
    /\ corner' = q.corner
    /\ root' = q.root
    /\ panic' = q.panic
    /\ log' = q.log

\* parse up to its line loop: "ps.lineDepth = -1; ps.addBlock(&rootBuilder{})"
Start(configs, texts) ==
    /\ cfg \in configs
    /\ input \in texts
    /\ stack = NewParser(cfg).stack
    /\ lineDepth = -1
    /\ lineno = 0
    /\ links = NoLinks
    /\ footnotes = <<>>
    /\ corner = FALSE
    /\ root = Nil
    /\ panic = ""
    /\ phase = "lines"
    /\ out = <<>>
    /\ again = <<>>
    /\ peer = NoPeer
    /\ frame = NoFrame
    /\ log = NewParser(cfg).log

InitList == Start(Configs({TRUE}, {TRUE}), SeqsUpTo(ListLines, MaxLines))

InitTable == Start(Configs({TRUE, FALSE}, {FALSE}), SeqsUpTo(TableLines, MaxLines))

InitLink == Start(Configs({FALSE}, {FALSE}), SeqsUpTo(LinkLines, MaxLines))

InitFoot == Start(Configs({FALSE}, {TRUE, FALSE}), SeqsUpTo(FootLines, MaxLines))

InitInline == Start(Configs({FALSE}, {FALSE}), InlineTexts)

InitStrike == Start(StrikeConfigs, StrikeTexts)

InitEmph == Start(Configs({FALSE}, {FALSE}), EmphTexts)

InitCode == Start(Configs({FALSE}, {FALSE}), CodeTexts)

\* lines for footnotes whose bodies refer to footnotes
NoteLines ==
    {<<"x", "[", "^", "a", "]">>,
     <<"x", "[", "^", "a", "]", "[", "^", "b", "]">>,
     <<"[", "^", "a", "]", ":", " ", "y", "[", "^", "b", "]">>,
     <<"[", "^", "b", "]", ":", " ", "z", "[", "^", "a", "]">>,
     <<"[", "^", "b", "]", ":", " ", "z">>}

InitNotes == Start(Configs({FALSE}, {TRUE}), SeqsUpTo(NoteLines, MaxLines))

\* The quote family: one line of quotes, letters and spaces, parsed with
\* SmartQuote on.
QuoteTokens == {<<"\"">>, <<"'">>, <<"a">>, <<" ">>}

QuoteTexts == {<<Concat(q)>> : q \in SeqsUpTo(QuoteTokens, MaxQuote) \ {<<>>}}

QuoteConfigs == {[c EXCEPT !.SmartQuote = TRUE] : c \in Configs({FALSE}, {FALSE})}

InitQuote == Start(QuoteConfigs, QuoteTexts)

\* lines for tables, alone and in a block quote, and for what may follow them
RowLines ==
    {<<"a", "|", "b">>,
     <<"-", "|", "-">>,
     <<"c", "|", "d">>,
     <<"c">>,
     <<"|">>,
     <<>>,
     <<"=">>,
     <<"-", " ", "c">>,
     <<">", " ", "a", "|", "b">>,
     <<">", " ", "-", "|", "-">>,
     <<">", " ", "c">>}

InitRows == Start(Configs({TRUE}, {FALSE}), SeqsUpTo(RowLines, MaxLines))

InitTicks == Start(Configs({FALSE}, {FALSE}), TickTexts)

\* a row before TestTableCount counts its columns
InitCount ==
    /\ cfg \in Configs({TRUE}, {FALSE})
    /\ input \in RowTexts
    /\ stack = <<>>
    /\ lineDepth = -1
    /\ lineno = 0
    /\ links = NoLinks
    /\ footnotes = <<>>
    /\ corner = FALSE
    /\ root = Nil
    /\ panic = ""
    /\ phase = "row"
    /\ out = <<>>
    /\ again = <<>>
    /\ peer = NoPeer
    /\ frame = NoFrame
    /\ log = <<>>

\* one iteration of the line loop of parse: "ps.lineno++; ps.addLine(...)"
AddLine ==
    /\ phase = "lines"
    /\ panic = ""
    /\ lineno < Len(input)
    /\ \E q \in {addLine([PState EXCEPT !.lineno = lineno + 1],
                         makeLine(input[lineno + 1], "\n"))} :
          /\ SetP(q)
          /\ phase' = IF q.panic = "" THEN "lines" ELSE "aborted"
    /\ UNCHANGED <<input, out, again, peer, frame>>

\* the rest of parse, after the last line
Finish ==
    /\ phase = "lines"
    /\ panic = ""
    /\ lineno = Len(input)
    /\ \E q \in {finish(PState)} :
          /\ SetP(q)
          /\ phase' = IF q.panic = "" THEN "parsed" ELSE "aborted"
    /\ UNCHANGED <<input, out, again, peer, frame>>

\* ToHTML of the document that Parse returned
Render ==
    /\ phase = "parsed"
    /\ panic = ""
    /\ \E pr \in {ToHTML(root, footnotes)} :
          /\ out' = pr.buf
          /\ panic' = pr.panic
    /\ phase' = "printed"
    /\ UNCHANGED <<cfg, input, stack, lineDepth, lineno, links, footnotes, corner, root,
                   again, peer, frame, log>>

Next == AddLine \/ Finish \/ Render

\* the round trip of a parsed and printed document: "md1 := Format(doc);
\* doc1 := p.Parse(md1); h1 := ToHTML(doc1)"
Reformat ==
    /\ phase = "printed"
    /\ panic = ""
    /\ \E m \in {Format(root)} :
          \E q \in {IF m.panic = "" THEN parse(cfg, m.buf) ELSE NewParser(cfg)} :
             again' = [md |-> m.buf,
                       panic |-> IF m.panic # "" THEN m.panic ELSE q.panic,
                       corner |-> q.corner,
                       root |-> q.root,
                       html |-> IF m.panic = "" /\ q.panic = ""
                                THEN ToHTML(q.root, q.footnotes).buf ELSE <<>>]
    /\ phase' = "reformatted"
    /\ UNCHANGED <<cfg, input, stack, lineDepth, lineno, links, footnotes, corner, root, panic,
                   out, peer, frame, log>>

\* the second call of Parse on the same Parser, as a parser record
PeerState ==
    [cfg |-> cfg, stack |-> peer.stack, lineDepth |-> peer.lineDepth, lineno |-> peer.lineno,
     links |-> peer.links, footnotes |-> peer.footnotes, corner |-> peer.corner,
     root |-> peer.root, panic |-> peer.panic, log |-> peer.log]

SetPeer(q, ph) ==
    /\ cfg' = q.cfg
    /\ peer' = [phase |-> ph, input |-> peer.input, stack |-> q.stack,
                lineDepth |-> q.lineDepth, lineno |-> q.lineno, links |-> q.links,
                footnotes |-> q.footnotes, corner |-> q.corner, root |-> q.root,
                panic |-> q.panic, log |-> q.log]

\* one iteration of the line loop of the second call
PeerLine ==
    /\ peer.phase = "lines"
    /\ peer.lineno < Len(peer.input)
    /\ \E q \in {addLine([PeerState EXCEPT !.lineno = @ + 1],
                         makeLine(peer.input[peer.lineno + 1], "\n"))} :
          SetPeer(q, IF q.panic = "" THEN "lines" ELSE "aborted")
    /\ UNCHANGED <<input, stack, lineDepth, lineno, links, footnotes, corner, root, panic,
                   phase, out, again, frame, log>>

\* the rest of the second call, after its last line
PeerFinish ==
    /\ peer.phase = "lines"
    /\ peer.lineno = Len(peer.input)
    /\ \E q \in {finish(PeerState)} :
          SetPeer(q, IF q.panic = "" THEN "parsed" ELSE "aborted")
    /\ UNCHANGED <<input, stack, lineDepth, lineno, links, footnotes, corner, root, panic,
                   phase, out, again, frame, log>>

\* two goroutines call Parse on one Parser; their steps interleave
InitShared ==
    /\ cfg \in Configs({FALSE}, {TRUE})
    /\ input \in SeqsUpTo(SharedLines, MaxShared)
    /\ stack = NewParser(cfg).stack
    /\ lineDepth = -1
    /\ lineno = 0
    /\ links = NoLinks
    /\ footnotes = <<>>
    /\ corner = FALSE
    /\ root = Nil
    /\ panic = ""
    /\ phase = "lines"
    /\ out = <<>>
    /\ again = <<>>
    /\ frame = NoFrame
    /\ log = NewParser(cfg).log
    /\ \E t \in SeqsUpTo(SharedLines, MaxShared) :
          peer = [phase |-> "lines", input |-> t, stack |-> NewParser(cfg).stack,
                  lineDepth |-> -1, lineno |-> 0, links |-> NoLinks, footnotes |-> <<>>,
                  corner |-> FALSE, root |-> Nil, panic |-> "",
                  log |-> NewParser(cfg).log]

NextShared == AddLine \/ Finish \/ PeerLine \/ PeerFinish

SpecShared == InitShared /\ [][NextShared]_vars

NextFormat == AddLine \/ Finish \/ Render \/ Reformat

SpecFormat == InitCode /\ [][NextFormat]_vars

SpecList == InitList /\ [][Next]_vars

SpecTable == InitTable /\ [][Next]_vars

SpecLink == InitLink /\ [][Next]_vars

SpecFoot == InitFoot /\ [][Next]_vars

SpecInline == InitInline /\ [][Next]_vars

SpecStrike == InitStrike /\ [][Next]_vars

SpecEmph == InitEmph /\ [][Next]_vars

SpecNotes == InitNotes /\ [][Next]_vars

SpecQuote == InitQuote /\ [][Next]_vars

SpecRows == InitRows /\ [][Next]_vars

SpecTicks == InitTicks /\ [][Next]_vars

\* The HTML marker family: one paragraph line that starts with a letter,
\* followed by openers and terminators of comments, declarations,
\* processing instructions and CDATA sections.
MarkTokens ==
    {<<"<", "!", "-", "-">>, <<"-", "-", ">">>, <<"<", "!", "D">>, <<">">>,
     <<"<", "?">>, <<"?", ">">>, <<"<", "!", "[", "C", "D", "A", "T", "A", "[">>,
     <<"]", "]", ">">>}

MarkTexts == {<<(<<"a">> \o Concat(q))>> : q \in SeqsUpTo(MarkTokens, MaxMarks)}

InitMarks == Start(Configs({FALSE}, {FALSE}), MarkTexts)

SpecMarks == InitMarks /\ [][Next]_vars

\* ------------------------------------------------------------------------
\* The label code step by step: one action for each iteration of the loops
\* of parseLinkLabel and normalizeLabel, and one for each call and return
\* around them.  frame holds the call (mode, start, len), the position pc
\* and the locals: i and j of parseLinkLabel and its result lab; the string
\* ns, the index ni and the builder state nst of normalizeLabel, its result
\* key, and whether it normalizes the label that parseLinkLabel returned or
\* the text of a collapsed or shortcut reference (of).
\* ------------------------------------------------------------------------
InitLabel ==
    /\ cfg \in Configs({FALSE}, {FALSE})
    /\ \E c \in LabelCalls :
          /\ input = <<c.s>>
          /\ links = c.links
          /\ frame = [pc |-> "call", mode |-> c.mode, start |-> c.start, len |-> c.len,
                      i |-> 0, j |-> 0, lab |-> NoLabel(FALSE), of |-> "",
                      ns |-> <<>>, ni |-> 0, nst |-> [space |-> FALSE, b |-> <<>>],
                      key |-> <<>>]
    /\ stack = NewParser(cfg).stack
    /\ lineDepth = -1
    /\ lineno = 0
    /\ footnotes = <<>>
    /\ corner = FALSE
    /\ root = Nil
    /\ panic = ""
    /\ phase = "label"
    /\ out = <<>>
    /\ again = <<>>
    /\ peer = NoPeer
    /\ log = NewParser(cfg).log

\* the frame at the call normalizeLabel(x)
normalizeCall(f, x, of) ==
    Bind(normalizeStart(x), LAMBDA n :
    [f EXCEPT !.of = of, !.ns = n.s, !.ni = 0, !.nst = [space |-> FALSE, b |-> <<>>],
              !.key = <<>>, !.pc = IF n.loop THEN "normalize" ELSE "normalized"])

\* the label code is over: the call of parseLinkRefDef or parseLinkClose
\* has returned res
LabelDone(res) ==
    /\ out' = res
    /\ corner' = (corner \/ res.corner)
    /\ frame' = [frame EXCEPT !.pc = "done"]

\* parseLinkRefDef and parseLinkClose up to the loop of parseLinkLabel
CallLabel ==
    /\ phase = "label"
    /\ frame.pc = "call"
    /\ \E i \in {IF frame.mode = "definition" THEN skipSpace(input[1], 0)
                  ELSE frame.start + 1} :
          frame' = IF frame.mode = "reference" /\ (i >= Len(input[1]) \/ At(input[1], i) # "[")
                   THEN normalizeCall(frame, Slice(input[1], 1, frame.start), "text")
                   ELSE IF i >= Len(input[1]) \/ At(input[1], i) # "["
                        THEN [frame EXCEPT !.i = i, !.lab = NoLabel(FALSE), !.pc = "labelled"]
                   ELSE [frame EXCEPT !.i = i, !.j = i + 1, !.pc = "label"]
    /\ UNCHANGED <<cfg, input, stack, lineDepth, lineno, links, footnotes, corner, root, panic,
                   phase, out, again, peer, log>>

\* one iteration of the loop of parseLinkLabel, or its end
LabelStep ==
    /\ phase = "label"
    /\ frame.pc = "label"
    /\ frame' = IF frame.j >= Len(input[1])
                THEN [frame EXCEPT !.lab = NoLabel(FALSE), !.pc = "labelled"]
                ELSE Bind(labelStep(input[1], frame.i, frame.j), LAMBDA r :
                     IF r.done THEN [frame EXCEPT !.lab = r.res, !.pc = "labelled"]
                     ELSE [frame EXCEPT !.j = r.j])
    /\ UNCHANGED <<cfg, input, stack, lineDepth, lineno, links, footnotes, corner, root, panic,
                   phase, out, again, peer, log>>

\* parseLinkLabel has returned: a definition without a label is over; the
\* label, or after a failed label the text of the reference, is normalized
LabelReturn ==
    /\ phase = "label"
    /\ frame.pc = "labelled"
    /\ IF frame.mode = "definition" /\ ~frame.lab.ok
       THEN /\ LabelDone(refDefAfterLabel(links, input[1], frame.lab, <<>>))
            /\ UNCHANGED links
       ELSE /\ frame' = IF frame.lab.ok THEN normalizeCall(frame, frame.lab.label, "label")
                        ELSE normalizeCall(frame, Slice(input[1], 1, frame.start), "text")
            /\ UNCHANGED <<links, corner, out>>
    /\ UNCHANGED <<cfg, input, stack, lineDepth, lineno, footnotes, root, panic,
                   phase, again, peer, log>>

\* one iteration of the loop of normalizeLabel, or its end
NormalizeStep ==
    /\ phase = "label"
    /\ frame.pc = "normalize"
    /\ frame' = IF frame.ni >= Len(frame.ns)
                THEN [frame EXCEPT !.key = frame.nst.b, !.pc = "normalized"]
                ELSE [frame EXCEPT !.nst = normalizeStep(At(frame.ns, frame.ni), @),
                                   !.ni = @ + 1]
    /\ UNCHANGED <<cfg, input, stack, lineDepth, lineno, links, footnotes, corner, root, panic,
                   phase, out, again, peer, log>>

\* normalizeLabel has returned: the definition is stored, or the reference
\* is looked up in the link map
NormalizeReturn ==
    /\ phase = "label"
    /\ frame.pc = "normalized"
    /\ IF frame.mode = "definition"
       THEN \E r \in {refDefAfterLabel(links, input[1], frame.lab, frame.key)} :
               /\ links' = r.links
               /\ LabelDone(r)
       ELSE /\ LabelDone(IF frame.of = "label"
                         THEN fullReference(links, frame.lab, frame.key).res
                         ELSE shortcutWith(links, input[1], frame.start, frame.lab.corner,
                                           frame.key))
            /\ UNCHANGED links
    /\ UNCHANGED <<cfg, input, stack, lineDepth, lineno, footnotes, root, panic,
                   phase, again, peer, log>>

NextLabel == CallLabel \/ LabelStep \/ LabelReturn \/ NormalizeStep \/ NormalizeReturn

SpecLabel == InitLabel /\ [][NextLabel]_vars

\* the body of the loop of TestTableCount: "n := tableCount(tableTrimOuter(tt.row))"
CountRow ==
    /\ phase = "row"
    /\ out' = <<tableCount(tableTrimOuter(input[1]))>>
    /\ phase' = "counted"
    /\ UNCHANGED <<cfg, input, stack, lineDepth, lineno, links, footnotes, corner, root, panic,
                   again, peer, frame, log>>

NextCount == CountRow

SpecCount == InitCount /\ [][NextCount]_vars

\* ------------------------------------------------------------------------
\* The returned tree: the blocks and the inline sequences reachable from it.
\* ------------------------------------------------------------------------
RECURSIVE BlocksOf(_)
\* the block b and every block below it
BlocksOf(b) ==
    LET under(bs) == UNION {BlocksOf(bs[k]) : k \in 1..Len(bs)} IN
    {b} \cup
    CASE b.kind \in {"Document", "Quote", "Item"} -> under(b.Blocks)
      [] b.kind = "List" -> under(b.Items)
      [] b.kind \in {"Paragraph", "Heading"} -> {b.Text}
      [] b.kind = "Table" ->
             {b.Header[k] : k \in 1..Len(b.Header)}
             \cup UNION {{b.Rows[r][k] : k \in 1..Len(b.Rows[r])} : r \in 1..Len(b.Rows)}
      [] OTHER -> {}

RECURSIVE InlinesUnder(_)
\* the inline x and every inline below it
InlinesUnder(x) ==
    {x} \cup
    IF x.kind \in {"Link", "Image", "Emph", "Strong", "Del"}
    THEN UNION {InlinesUnder(x.Inner[k]) : k \in 1..Len(x.Inner)}
    ELSE {}

\* every inline of the Texts of a set of blocks
InlinesOf(bs) ==
    UNION {UNION {InlinesUnder(b.Inline[k]) : k \in 1..Len(b.Inline)} :
              b \in {c \in bs : c.kind = "Text"}}

Returned == phase \in {"parsed", "printed"}

\* the blocks of the returned document
DocBlocks == BlocksOf(root)

\* whether line k of the input is blank
BlankAt(k) == isBlank(makeLine(input[k], "\n"))

\* whether a blank line of the input lies between lines a and b
BlankBetween(a, b) == \E k \in (a + 1)..(b - 1) : BlankAt(k)

\* the footnotes that some FootnoteLink of the returned document points to
RECURSIVE NotesFrom(_, _)
NotesFrom(seen, bs) ==
    LET keys == {x.Footnote : x \in {y \in InlinesOf(bs) : y.kind = "FootnoteLink"}} \ seen IN
    IF keys = {} THEN seen
    ELSE NotesFrom(seen \cup keys,
                   UNION {UNION {BlocksOf(footnotes[k].Blocks[j]) :
                                    j \in 1..Len(footnotes[k].Blocks)} : k \in keys})

LinkedNotes == NotesFrom({}, DocBlocks)

\* the blocks of the footnotes the returned document points to
NoteBlocks ==
    UNION {UNION {BlocksOf(footnotes[k].Blocks[j]) : j \in 1..Len(footnotes[k].Blocks)} :
              k \in LinkedNotes}

\* ------------------------------------------------------------------------
\* Claims.
\* ------------------------------------------------------------------------

\* C1: Parse returns a Document for every input and every setting of the
\* flags: no panic, out-of-range index or failed type assertion is reached
\* in the block parser or the inline parser.
C1_ParseNeverAborts == phase # "aborted"

\* C2: ToHTML of the document returned by Parse completes: no rendering
\* step aborts.
C2_ToHTMLNeverAborts == phase = "printed" => panic = ""

\* C3: with the Table flag on, every Table of the returned document has as
\* many alignment entries as its header row has cells.
C3_AlignMatchesHeader ==
    (Returned /\ cfg.Table) =>
        \A t \in DocBlocks : t.kind = "Table" => Len(t.Align) = Len(t.Header)

\* C4: in every inline sequence returned by Parse, no Link has another
\* Link among its descendants at any depth (inside Emph, Strong, Del or
\* Image children included); an Image may appear inside a Link.
C4_NoLinkInsideLink ==
    Returned =>
        \A x \in InlinesOf(DocBlocks) :
            x.kind = "Link" =>
                \A k \in 1..Len(x.Inner) : \A y \in InlinesUnder(x.Inner[k]) : y.kind # "Link"

\* a Link that holds an Image and stands between the text of an outer "["
\* and the text of the outer "](u)" that was refused as its close
C4_OuterBracketStaysText ==
    /\ Returned
    /\ \E b \in {c \in DocBlocks : c.kind = "Text"} :
          \E k \in 2..(Len(b.Inline) - 1) :
              /\ b.Inline[k].kind = "Link"
              /\ \E y \in InlinesUnder(b.Inline[k]) : y.kind = "Image"
              /\ b.Inline[k - 1].kind = "Plain"
              /\ b.Inline[k - 1].Text[Len(b.Inline[k - 1].Text)] = "["
              /\ b.Inline[k + 1].kind = "Plain"
              /\ HasPrefix(b.Inline[k + 1].Text, <<"]", "(", "u", ")">>)

\* C5: every key of the link map of the returned document is a non-empty
\* string that contains neither "[" nor "]".
C5_LinkKeysWellFormed ==
    Returned =>
        \A k \in DOMAIN root.Links : k # <<>> /\ ~Contains(k, "[") /\ ~Contains(k, "]")

\* line i of the input read as a link reference definition on its own
DefAlone(i) == parseLinkRefDef(NoLinks, input[i])

\* the label that line i defines on its own
DefKey(i) == CHOOSE k \in DOMAIN DefAlone(i).links : TRUE

\* every line before line i is blank or a definition on its own, so that
\* line i starts a definition if it is one
LeadingLines(i) == \A j \in 1..(i - 1) : BlankAt(j) \/ DefAlone(j).ok

\* line i is the first definition of its label in the input
LeadingDef(i) ==
    /\ LeadingLines(i)
    /\ DefAlone(i).ok
    /\ \A j \in 1..(i - 1) : DefAlone(j).ok => DefKey(j) # DefKey(i)

\* the link map holds the entry that line i defines
KeptFrom(i) == DefKey(i) \in DOMAIN links /\ links[DefKey(i)] = DefAlone(i).links[DefKey(i)]

\* C6: once a link reference definition has put a label in the link map, no
\* later definition of the same label replaces or changes its entry: the map
\* keeps the destination and title of the definition that came first.
C6_FirstDefinitionWins ==
    /\ [][\A k \in DOMAIN links : k \in DOMAIN links' /\ links'[k] = links[k]]_vars
    /\ [](Returned => \A i \in 1..Len(input) : LeadingDef(i) => KeptFrom(i))

\* two definitions of one label in the input, the first of them kept
C6_SecondDefinitionIgnored ==
    /\ Returned
    /\ \E i \in 1..Len(input) : \E j \in (i + 1)..Len(input) :
          /\ LeadingDef(i) /\ KeptFrom(i)
          /\ DefAlone(j).ok /\ LeadingLines(j)
          /\ DefKey(j) = DefKey(i)
          /\ DefAlone(j).links[DefKey(j)] # DefAlone(i).links[DefKey(i)]

\* C7: no Empty block is reachable in the tree returned by Parse: not among
\* the children of the Document, of a Quote or of an Item, and not among the
\* blocks of a Footnote that a FootnoteLink of the tree points to.
C7_NoEmptyReachable ==
    Returned => \A b \in DocBlocks \cup NoteBlocks : b.kind # "Empty"

\* every block of every footnote the parser recorded
AllNoteBlocks ==
    UNION {UNION {BlocksOf(footnotes[k].Blocks[j]) : j \in 1..Len(footnotes[k].Blocks)} :
              k \in DOMAIN footnotes}

\* C8: no inline sequence of the returned tree (the inner sequences of Link,
\* Image, Emph, Strong and Del included) holds a transient openPlain or
\* emphPlain node.
C8_NoTransientInline ==
    Returned =>
        \A x \in InlinesOf(DocBlocks \cup AllNoteBlocks) : x.kind \notin {"openPlain", "emphPlain"}

\* a Link whose inner sequence holds the text of a "*" that closed nothing
C8_UnmatchedStarInsideLink ==
    /\ Returned
    /\ \E x \in InlinesOf(DocBlocks) :
          /\ x.kind = "Link"
          /\ \E k \in 1..Len(x.Inner) :
                x.Inner[k].kind = "Plain" /\ Contains(x.Inner[k].Text, "*")

\* C9: every child block a list builder has accumulated is an Item, and so
\* is every element of the Items of every List of the returned tree.
C9_ListHoldsOnlyItems ==
    /\ \A k \in 1..Len(stack) :
          stack[k].builder.kind = "list" =>
              \A j \in 1..Len(stack[k].inner) : stack[k].inner[j].kind = "Item"
    /\ Returned =>
          \A b \in DocBlocks \cup AllNoteBlocks :
              b.kind = "List" => \A j \in 1..Len(b.Items) : b.Items[j].kind = "Item"

\* a List whose only item was closed empty by a blank line, followed in the
\* Document by the paragraph of the next line, which the list did not take
C9_ParagraphAfterClosedItem ==
    /\ Returned
    /\ \E k \in 1..(Len(root.Blocks) - 1) :
          /\ root.Blocks[k].kind = "List"
          /\ Len(root.Blocks[k].Items) = 1
          /\ root.Blocks[k].Items[1].kind = "Item"
          /\ root.Blocks[k].Items[1].Blocks = <<>>
          /\ root.Blocks[k + 1].kind = "Paragraph"
          /\ BlankBetween(root.Blocks[k].pos.StartLine, root.Blocks[k + 1].pos.StartLine)

\* the condition under which the claim calls a list loose
SeparatedByBlank(l) ==
    \/ \E i \in 1..(Len(l.Items) - 1) :
          BlankBetween(l.Items[i].pos.EndLine, l.Items[i + 1].pos.StartLine)
    \/ \E i \in 1..Len(l.Items) : \E j \in 1..(Len(l.Items[i].Blocks) - 1) :
          BlankBetween(l.Items[i].Blocks[j].pos.EndLine, l.Items[i].Blocks[j + 1].pos.StartLine)

\* C10: a List is marked loose if and only if two adjacent items have a
\* blank line between them or an item holds two adjacent child blocks with
\* a blank line between them.
C10_LooseIffBlankLine ==
    Returned => \A l \in DocBlocks : l.kind = "List" => (l.Loose <=> SeparatedByBlank(l))

\* C12: footnote syntax is recognised only with the Footnote flag set: with
\* the flag off the parser records no footnote definition (no line is taken
\* as one, so no text leaves the document) and the returned tree holds no
\* FootnoteLink.
C12_FootnoteOnlyWhenEnabled ==
    (Returned /\ ~cfg.Footnote) =>
        /\ DOMAIN footnotes = {}
        /\ \A x \in InlinesOf(DocBlocks) : x.kind # "FootnoteLink"

\* The text of a sequence of inlines written back with its delimiters: the
\* text of a Plain as it is, an Emph or a Strong between its Marker, and a
\* Del between two "D1" (Marker "~") or two "D2" (Marker "~~").
RECURSIVE Delimited(_)
Delimited(list) ==
    IF list = <<>> THEN <<>>
    ELSE LET x == list[1]
             m == IF x.kind # "Del" THEN x.Marker
                  ELSE IF Len(x.Marker) = 1 THEN <<"D1">> ELSE <<"D2">>
         IN (IF x.kind \in {"Del", "Emph", "Strong"} THEN m \o Delimited(x.Inner) \o m
             ELSE x.Text)
            \o Delimited(Tail(list))

\* Delimited with every Del delimiter written as the "~" run it stands for
RECURSIVE Undelimited(_)
Undelimited(r) ==
    IF r = <<>> THEN <<>>
    ELSE (IF r[1] = "D1" THEN <<"~">> ELSE IF r[1] = "D2" THEN <<"~", "~">> ELSE <<r[1]>>)
         \o Undelimited(Tail(r))

\* In every paragraph of the returned document the delimiters of the Del
\* nodes are whole "~" runs of the input line, each of a length in lens,
\* and the rest of the line is kept as text.
TildeRuns(lens) ==
    Returned =>
        \A b \in DocBlocks : b.kind = "Paragraph" =>
            LET r == Delimited(b.Text.Inline)
                tilde(k) == k \in 1..Len(r) /\ r[k] \in {"~", "D1", "D2"}
            IN /\ Undelimited(r) = trimSpaceTab(input[1])
               /\ \A k \in 1..Len(r) :
                     r[k] \in {"D1", "D2"} =>
                         /\ ~tilde(k - 1) /\ ~tilde(k + 1)
                         /\ (IF r[k] = "D1" THEN 1 ELSE 2) \in lens

\* C13 as stated: with Strikethrough on, a Del comes only from a "~~" run
\* matched with a "~~" run; every "~" run of length 1 or of length 3 or more
\* stays literal text.
C13_OnlyDoubleTilde == TildeRuns({2})

\* C13 as amended: with Strikethrough on, a Del comes only from a "~" run of
\* length 1 or 2 matched with a run of the same length; the delimiters are
\* whole runs, so a run of length 3 or more stays literal text.
C13_TildeRunsOfOneOrTwo == TildeRuns({1, 2})

\* "~a~a~~~" parsed: the single tildes make a Del and the run of three is text
C13_SingleTildeDel ==
    /\ Returned
    /\ input = << <<"~", "a", "~", "a", "~", "~", "~">> >>
    /\ \E b \in DocBlocks :
          /\ b.kind = "Paragraph"
          /\ b.Text.Inline = << [kind |-> "Del", Marker |-> <<"~">>, Inner |-> <<Plain(<<"a">>)>>],
                                Plain(<<"a", "~", "~", "~">>) >>

\* the cells written in line k of the input, counted as tableCount counts
WrittenCells(k) == tableCount(tableTrimOuter(input[k]))

TrimmedOnce(row) ==
    LET r == tableTrimSpace(row)
        lo == IF Len(r) > 0 /\ r[1] = "|" THEN 2 ELSE 1
        hi == IF Len(r) >= lo /\ r[Len(r)] = "|" THEN Len(r) - 1 ELSE Len(r)
    IN SubSeq(r, lo, hi)

\* the positions of the "|" of t that no backslash precedes
UnescapedPipes(t) == {k \in 1..Len(t) : t[k] = "|" /\ (k = 1 \/ t[k - 1] # "\\")}

\* C15: for every row, tableCount of the row with its outer pipes trimmed
\* once is 1 plus the number of "|" left that no backslash precedes.
C15_CountIsOnePlusUnescapedPipes ==
    phase = "counted" => out[1] = 1 + Cardinality(UnescapedPipes(TrimmedOnce(input[1])))

\* the row "||\||" counted: one pipe is trimmed at each end, the first pipe
\* left separates two columns and the pipe after the backslash does not
C15_EscapedAndOuterPipes ==
    /\ phase = "counted"
    /\ input = << <<"|", "|", "\\", "|", "|">> >>
    /\ out = <<2>>

\* The characters of a sequence of inlines written back with its delimiters,
\* each with the place it came from: c is the character, lit says whether
\* it is text (not a delimiter of an Emph, Strong or Del), and seq names
\* the inline sequence that holds it (the path of indexes from the top).
RECURSIVE Written(_, _, _)
Written(list, k, path) ==
    IF k > Len(list) THEN <<>>
    ELSE LET x == list[k]
             chars(t, lit) == [j \in 1..Len(t) |-> [c |-> t[j], lit |-> lit, seq |-> path]]
         IN (IF x.kind \in {"Del", "Emph", "Strong"}
             THEN chars(x.Marker, FALSE) \o Written(x.Inner, 1, Append(path, k))
                  \o chars(x.Marker, FALSE)
             ELSE chars(x.Text, TRUE))
            \o Written(list, k + 1, path)

\* the 0-based start in r of the run of "*" that holds position k (1-based)
RunStart(r, k) == CHOOSE a \in 0..(k - 1) :
    /\ \A j \in (a + 1)..k : r[j] = "*"
    /\ (a = 0 \/ r[a] # "*")

\* the delimiter run of r that starts at a, as parseEmph classifies it
RunAt(r, a) == parseEmph(r, a, [corner |-> FALSE]).x

\* In the inline sequence list no "*" is left as text in two runs of which
\* the left one can open, the right one can close and the two may match.
NoPartnerLeft(list) ==
    LET w == Written(list, 1, <<>>)
        r == [k \in 1..Len(w) |-> w[k].c]
        left == {k \in 1..Len(w) : w[k].lit /\ w[k].c = "*"}
    IN \A o \in left : \A p \in left :
          (RunStart(r, o) < RunStart(r, p) /\ w[o].seq = w[p].seq) =>
              ~ /\ RunAt(r, RunStart(r, o)).canOpen
                /\ RunAt(r, RunStart(r, p)).canClose
                /\ allow(RunAt(r, RunStart(r, p)), RunAt(r, RunStart(r, o)))

\* the text "a***b* c*" and the HTML the claim gives for it
Example19 == << <<"a", "*", "*", "*", "b", "*", " ", "c", "*">> >>

Example19HTML == <<"<p>", "a", "*", "<em>", "<em>", "b", "</em>", " ", "c", "</em>", "</p>\n">>

\* C19: a closing run with delimiters left after a match goes on to match
\* openers further left, so a "*" is left as text only when it has no
\* partner: every paragraph keeps all the characters of its line, as text or
\* as delimiters, and holds no two "*" runs left as text that could have
\* matched; "a***b* c*" renders as <p>a*<em><em>b</em> c</em></p>.
C19_OnlyUnpartneredLiteral ==
    /\ Returned =>
          \A b \in DocBlocks : b.kind = "Paragraph" =>
              /\ NoPartnerLeft(b.Text.Inline)
              /\ LET w == Written(b.Text.Inline, 1, <<>>)
                     t == trimSpaceTab(input[1])
                 IN \E k \in 0..Len(t) : [j \in 1..Len(w) |-> w[j].c] = From(t, k)
    /\ (phase = "printed" /\ input = Example19) => out = Example19HTML

\* "*a *a***" parsed: the closer of three closes the second opener, then
\* the first, and its last "*" is text
C19_CloserMatchesTwice ==
    /\ Returned
    /\ input = << <<"*", "a", " ", "*", "a", "*", "*", "*">> >>
    /\ root.Blocks[1].Text.Inline =
          << [kind |-> "Emph", Marker |-> <<"*">>,
              Inner |-> << Plain(<<"a", " ">>),
                           [kind |-> "Emph", Marker |-> <<"*">>, Inner |-> <<Plain(<<"a">>)>>] >>],
             Plain(<<"*">>) >>

\* ------------------------------------------------------------------------
\* C20: the stack discipline of the block parser.
\* ------------------------------------------------------------------------
\* the block parser is between two of its steps: the next one is addLine
\* (which trims, adds and finishes blocks) or the trimStack(0) of parse
AtBlockStep == phase = "lines" /\ panic = ""

StackShape ==
    /\ lineDepth + 1 <= Len(stack)
    /\ Len(stack) >= 1
    /\ stack[1].builder = rootBuilder

NoUnreachablePanic == panic \notin {"trimStack", "root extend"}

\* C20 as stated: at every point where the block parser trims the stack,
\* adds a block or finishes a block, 0 <= lineDepth, lineDepth + 1 <=
\* len(stack) and stack[0] is the root builder, and the panics of trimStack
\* and of the root builder's extend never fire.
C20_DepthNeverNegative ==
    /\ NoUnreachablePanic
    /\ AtBlockStep => (0 <= lineDepth /\ StackShape)

\* C20: at every point where the block parser trims the stack, adds a block
\* or finishes a block, -1 <= lineDepth, and 0 <= lineDepth once a line has
\* been taken; lineDepth + 1 <= len(stack) and stack[0] is the root builder;
\* the panics of trimStack and of the root builder's extend never fire.
C20_StackDiscipline ==
    /\ NoUnreachablePanic
    /\ AtBlockStep => /\ StackShape
                      /\ -1 <= lineDepth
                      /\ lineno > 0 => 0 <= lineDepth

\* a line left the parser two containers deep with nothing open below them
C20_TrimmedInsideContainers ==
    /\ AtBlockStep
    /\ lineno = Len(input)
    /\ lineno > 1
    /\ lineDepth = 2
    /\ Len(stack) = 3

\* ------------------------------------------------------------------------
\* C11 and C17: the round trip through Format.
\* ------------------------------------------------------------------------
\* C11: for every input whose parse does not set the corner flag, printing
\* the document as Markdown and parsing that text again with the same
\* configuration gives a document whose HTML is the HTML of the original
\* document.
C11_FormatPreservesHTML ==
    (phase = "reformatted" /\ ~corner) => (again.panic = "" /\ again.html = out)

\* the document is one paragraph holding one code span and nothing else
OnlyCode(doc) ==
    /\ Len(doc.Blocks) = 1
    /\ doc.Blocks[1].kind = "Paragraph"
    /\ Len(doc.Blocks[1].Text.Inline) = 1
    /\ doc.Blocks[1].Text.Inline[1].kind = "Code"

CodeOf(doc) == doc.Blocks[1].Text.Inline[1].Text

\* the lengths of the maximal runs of backquotes in t
RunLens(t) ==
    {n \in 1..Len(t) :
        \E i \in 1..(Len(t) - n + 1) :
            /\ \A k \in i..(i + n - 1) : t[k] = Backtick
            /\ (i = 1 \/ t[i - 1] # Backtick)
            /\ (i + n - 1 = Len(t) \/ t[i + n] # Backtick)}

\* the smallest backquote count that does not appear inside t
FewestTicks(t) == CHOOSE n \in 1..(Len(t) + 1) : n \notin RunLens(t) /\ (1..(n - 1)) \subseteq RunLens(t)

\* t between FewestTicks(t) backquotes, with a space inside the delimiters
\* when t begins or ends with a backquote
SpanText(t) ==
    LET ticks == [k \in 1..FewestTicks(t) |-> Backtick]
        sp == IF Len(t) > 0 /\ (t[1] = Backtick \/ t[Len(t)] = Backtick) THEN <<" ">> ELSE <<>>
    IN ticks \o sp \o t \o sp \o ticks

\* C17: for every code span text t that the parser can produce, the
\* Markdown printer writes the span with the smallest backquote count that
\* does not appear inside t (with a space inside the delimiters when t
\* begins or ends with a backquote), and parsing that output gives back a
\* single code span whose text is exactly t.
C17_CodeSpanRoundTrip ==
    (phase = "reformatted" /\ OnlyCode(root)) =>
        /\ again.md = Append(SpanText(CodeOf(root)), "\n")
        /\ again.panic = ""
        /\ OnlyCode(again.root)
        /\ CodeOf(again.root) = CodeOf(root)

\* ------------------------------------------------------------------------
\* C18: two calls of Parse on one Parser.
\* ------------------------------------------------------------------------
\* the text of a sequence of lines, every line ended by "\n"
TextOf(lines) == Concat([k \in 1..Len(lines) |-> Append(lines[k], "\n")])

\* what a call of Parse on the lines returns when it runs alone
Alone(lines) == parse(cfg, TextOf(lines))

\* each call that has returned holds the document, the link map, the
\* footnote map and the corner flag of a call that ran alone
SameAsAlone ==
    /\ phase = "parsed" =>
          Bind(Alone(input), LAMBDA q :
               /\ root = q.root /\ links = q.links
               /\ footnotes = q.footnotes /\ corner = q.corner)
    /\ peer.phase = "parsed" =>
          Bind(Alone(peer.input), LAMBDA q :
               /\ peer.root = q.root /\ peer.links = q.links
               /\ peer.footnotes = q.footnotes /\ peer.corner = q.corner)
    /\ phase # "aborted" /\ peer.phase # "aborted"

LabelOver == phase = "label" /\ frame.pc = "done"

\* the label became a link: the definition was stored in the link map, or
\* the reference was resolved by parseLinkClose
LabelResolved ==
    IF frame.mode = "definition" THEN out.ok /\ DOMAIN links # {}
    ELSE out.ok

\* C16: a bracketed link label with more than 999 bytes between its
\* brackets never resolves to a link, in a link reference definition and as
\* the label of a full, a collapsed or a shortcut reference.
C16_LongLabelNeverResolves ==
    (LabelOver /\ frame.len > LabelLimit) => ~LabelResolved

\* labels of at most 999 bytes resolve in each of the four positions
C16_EdgeLabelResolves ==
    (LabelOver /\ frame.len <= LabelLimit) => LabelResolved

\* a long label in a definition or a full reference is rejected, with the
\* corner flag set
C16_LongRejectedByParseLinkLabel ==
    (LabelOver /\ frame.len > LabelLimit /\ frame.lab.corner) => (~LabelResolved /\ corner)


\* ------------------------------------------------------------------------
\* C21
\* ------------------------------------------------------------------------

\* the starters in the order that the specification gives: indented code,
\* fenced code, block quote, ATX heading, Setext heading, thematic break,
\* list item, HTML block, footnote definition
StatedOrder(n, P, s) ==
    CASE n = 1 -> startIndentedCodeBlock(P, s)
      [] n = 2 -> startFencedCodeBlock(P, s)
      [] n = 3 -> startBlockQuote(P, s)
      [] n = 4 -> startATXHeading(P, s)
      [] n = 5 -> startSetextHeading(P, s)
      [] n = 6 -> startThematicBreak(P, s)
      [] n = 7 -> startListItem(P, s)
      [] n = 8 -> startHTMLBlock(P, s)
      [] n = 9 -> startFootnote(P, s)

RECURSIVE ByPrecedence(_, _, _)
\* the parser after the line s when the starters are tried in the stated
\* order from the n-th on, starting from what the starters that refused
\* left: the first that accepts is applied and the scan restarts at the
\* first starter on the rest of the line; when all nine refuse, the rest
\* starts or continues a paragraph.  A starter that aborts the parse ends
\* the scan.
ByPrecedence(P, s, n) ==
    IF P.panic # "" THEN P
    ELSE IF n > 9 THEN startParagraph(P, s)
    ELSE
    Bind(StatedOrder(n, P, s), LAMBDA r :
    IF r.p.panic # "" THEN r.p
    ELSE IF ~r.ok THEN ByPrecedence(r.p, s, n + 1)
    ELSE IF isBlank(r.s) THEN r.p
    ELSE ByPrecedence([r.p EXCEPT !.lineDepth = @ + 1], r.s, 1))

\* the parser and the rest of the next line after the extend phase
Extended ==
    extendLoop([PState EXCEPT !.lineno = lineno + 1, !.lineDepth = 0],
               makeLine(input[lineno + 1], "\n"))

\* AddLine is about to take a line that is not blank after the extend phase
NonBlankNext ==
    /\ phase = "lines" /\ panic = "" /\ lineno < Len(input)
    /\ Extended.p.panic = ""
    /\ ~isBlank(Extended.s)

\* C21: on each line that is not blank after the extend phase the starters
\* are tried in the stated order, the first that accepts is applied, and the
\* scan restarts from the first starter on the rest of the line.
C21_StartersByPrecedence ==
    [][(NonBlankNext /\ lineno' = lineno + 1)
       => Bind(ByPrecedence(Extended.p, Extended.s, 1), LAMBDA q :
               /\ stack' = q.stack
               /\ lineDepth' = q.lineDepth
               /\ links' = q.links
               /\ footnotes' = q.footnotes
               /\ corner' = q.corner
               /\ panic' = q.panic)]_vars


\* the line just taken is an underline that the thematic break starter
\* accepts as well, and it made the open paragraph a Setext heading
C21_SetextBeforeThematicBreak ==
    /\ phase = "lines" /\ panic = "" /\ lineno >= 2
    /\ trimThematicBreak(makeLine(input[lineno], "\n"))
    /\ Len(stack) = 1
    /\ stack[1].inner # <<>>
    /\ stack[1].inner[Len(stack[1].inner)].kind = "Heading"
    /\ stack[1].inner[Len(stack[1].inner)].pos.EndLine = lineno

\* the line just taken went through two starters: a list item was started,
\* and the scan restarted on the rest of the line started a footnote in it
C21_RestartedInsideItem ==
    /\ phase = "lines" /\ panic = "" /\ lineno >= 1
    /\ \E k \in 2..(Len(stack) - 1) :
          /\ stack[k].builder.kind = "item"
          /\ stack[k + 1].builder.kind = "footnote"
          /\ stack[k].pos.StartLine = lineno
          /\ stack[k + 1].pos.StartLine = lineno


\* ------------------------------------------------------------------------
\* C22
\* ------------------------------------------------------------------------

\* the line that addLine has just processed is blank
AfterBlank == phase = "lines" /\ panic = "" /\ lineno >= 1 /\ BlankAt(lineno)

\* the paragraphs of the returned document and of all its footnotes
Paragraphs == {b \in DocBlocks \cup AllNoteBlocks : b.kind = "Paragraph"}

\* C22: after a blank line has been processed no paragraph is open and the
\* stack is cut back to the line depth that the extend phase fixed, so no
\* paragraph of the document continues across a blank line, inside quotes,
\* list items and footnotes as at the top level.
C22_BlankClosesParagraph ==
    /\ AfterBlank =>
          /\ \A k \in 1..Len(stack) : stack[k].builder.kind # "para"
          /\ Len(stack) = lineDepth + 1
    /\ Returned =>
          \A b \in Paragraphs : \A k \in b.pos.StartLine..b.pos.EndLine : ~BlankAt(k)

\* a blank line closed the paragraph of a container that stays open
C22_ClosedInsideContainer ==
    /\ AfterBlank /\ lineno >= 2
    /\ Len(stack) >= 3
    /\ stack[Len(stack)].inner # <<>>
    /\ stack[Len(stack)].inner[Len(stack[Len(stack)].inner)].kind = "Paragraph"
    /\ stack[Len(stack)].inner[Len(stack[Len(stack)].inner)].pos.EndLine = lineno - 1


\* ------------------------------------------------------------------------
\* C23
\* ------------------------------------------------------------------------

\* the positions of the log where a builder was pushed, and where one was
\* built
OpenAt == {k \in 1..Len(log) : log[k].op = "open"}

BuildAt == {k \in 1..Len(log) : log[k].op = "build"}

\* the numbers of the builders that are on the stack
OnStack == {stack[k].id : k \in 1..Len(stack)}

\* no builder is built twice, and every builder pushed so far is on the
\* stack or has been built, never both
BuiltOnce ==
    /\ \A i, j \in BuildAt : log[i].id = log[j].id => i = j
    /\ OnStack \cup {log[k].id : k \in BuildAt} = {log[k].id : k \in OpenAt}
    /\ OnStack \cap {log[k].id : k \in BuildAt} = {}
    /\ Cardinality(OnStack) = Len(stack)

\* a builder is built only after every builder pushed after it was built
LastOpenedFirstClosed ==
    \A k \in BuildAt :
        /\ \E j \in OpenAt : j < k /\ log[j].id = log[k].id
        /\ \A j \in OpenAt :
              (j < k /\ log[j].id > log[k].id) =>
                  \E m \in BuildAt : j < m /\ m < k /\ log[m].id = log[j].id

\* C23: over a whole Parse every builder pushed on the stack is built exactly
\* once, builders are built in last-opened-first-closed order, and when the
\* input has ended the stack is empty and the last block built is that of
\* the root builder, the Document.
C23_BuiltOnceInnermostFirst ==
    (phase \in {"lines", "parsed", "printed"} /\ panic = "") =>
        /\ BuiltOnce
        /\ LastOpenedFirstClosed
        /\ Returned =>
              /\ stack = <<>>
              /\ log[Len(log)] = [op |-> "build", id |-> 1]
              /\ root.kind = "Document"

\* a Parse has returned after it closed blocks in the middle of the input
\* and at its end: some builder was pushed after another was built, and at
\* least three builders were still open when the input ended
C23_ClosedDuringAndAtEnd ==
    /\ phase = "parsed"
    /\ \E k \in BuildAt : \E j \in OpenAt : k < j
    /\ Len(log) >= 3
    /\ \A k \in (Len(log) - 2)..Len(log) : log[k].op = "build"


\* ------------------------------------------------------------------------
\* C24
\* ------------------------------------------------------------------------

\* the 0-based starts of the runs of "*" in the characters r
StarRuns(r) == {a \in 0..(Len(r) - 1) : r[a + 1] = "*" /\ (a = 0 \/ r[a] # "*")}

\* the sum of the lengths of the runs is a multiple of 3 and the lengths
\* are not both multiples of 3
SumOfThree(p, start) ==
    /\ (p.n + start.n) % 3 = 0
    /\ ~(p.n % 3 = 0 /\ start.n % 3 = 0)

\* the rule as stated: it bars closer p and opener start when each of the
\* two runs can open and can close
BarredAsStated(p, start) ==
    /\ p.canOpen /\ p.canClose /\ start.canOpen /\ start.canClose
    /\ SumOfThree(p, start)

\* the rule when one run that can open and close is enough
BarredIfEither(p, start) ==
    /\ (p.canOpen /\ p.canClose) \/ (start.canOpen /\ start.canClose)
    /\ SumOfThree(p, start)

\* an Emph or a Strong was made in the inline sequence
Matched(list) == \E k \in 1..Len(list) : list[k].kind \in {"Emph", "Strong"}

\* In every paragraph whose text holds exactly two runs of "*", the runs
\* match exactly when the first can open, the second can close and the
\* rule Barred does not bar the pair.
PairRule(Barred(_, _)) ==
    Returned =>
        \A b \in DocBlocks : b.kind = "Paragraph" =>
            LET w == Written(b.Text.Inline, 1, <<>>)
                r == [k \in 1..Len(w) |-> w[k].c]
            IN Cardinality(StarRuns(r)) = 2 =>
                  LET a1 == CHOOSE a \in StarRuns(r) : \A o \in StarRuns(r) : a <= o
                      a2 == CHOOSE a \in StarRuns(r) : \A o \in StarRuns(r) : o <= a
                  IN Matched(b.Text.Inline) <=>
                        /\ RunAt(r, a1).canOpen
                        /\ RunAt(r, a2).canClose
                        /\ ~Barred(RunAt(r, a2), RunAt(r, a1))

\* C24: for "*" and "_" the multiple-of-3 rule bars an opener and a closer
\* from matching only when both runs can each open and close, their lengths
\* sum to a multiple of 3 and the lengths are not both multiples of 3; any
\* other pair of runs of the same character may match.
C24_BarredOnlyWhenBothCanDoBoth == PairRule(BarredAsStated)

\* C24 as the code has it: the rule bars the pair when at least one of the
\* two runs can both open and close, the lengths sum to a multiple of 3 and
\* are not both multiples of 3.
C24_BarredWhenEitherCanDoBoth == PairRule(BarredIfEither)

\* "*b**a" parsed: the opener can only open, the closer "**" can open and
\* close, the lengths sum to 3, and the runs stay text
C24_OneSidedPairBarred ==
    /\ Returned
    /\ input = << <<"*", "b", "*", "*", "a">> >>
    /\ root.Blocks[1].Text.Inline = <<Plain(<<"*", "b", "*", "*", "a">>)>>


\* ------------------------------------------------------------------------
\* C25
\* ------------------------------------------------------------------------

\* The characters of a sequence of inlines written back as source, links
\* and images as "[text](url)" and "![text](url)": c is the character, lit
\* says whether it is text, seq names the inline sequence that holds it,
\* and depth counts the links and images around it.
RECURSIVE Source(_, _, _, _)
Source(list, k, path, depth) ==
    IF k > Len(list) THEN <<>>
    ELSE LET x == list[k]
             chars(t, lit) ==
                 [j \in 1..Len(t) |-> [c |-> t[j], lit |-> lit, seq |-> path, depth |-> depth]]
         IN (CASE x.kind \in {"Del", "Emph", "Strong"} ->
                     chars(x.Marker, FALSE) \o Source(x.Inner, 1, Append(path, k), depth)
                     \o chars(x.Marker, FALSE)
               [] x.kind \in {"Link", "Image"} ->
                     chars(IF x.kind = "Image" THEN <<"!", "[">> ELSE <<"[">>, FALSE)
                     \o Source(x.Inner, 1, Append(path, k), depth + 1)
                     \o chars(<<"]", "(">> \o x.URL \o <<")">>, FALSE)
               [] OTHER -> chars(x.Text, TRUE))
            \o Source(list, k + 1, path, depth)

\* the source of the paragraph b
ParaSource(b) == Source(b.Text.Inline, 1, <<>>, 0)

\* In the characters w no two runs of "*" are left as text in one inline
\* sequence of which the left can open, the right can close and the two may
\* match.
ResolvedWithin(w) ==
    LET r == [k \in 1..Len(w) |-> w[k].c]
        left == {k \in 1..Len(w) : w[k].lit /\ w[k].c = "*"}
    IN \A o \in left : \A p \in left :
          (RunStart(r, o) < RunStart(r, p) /\ w[o].seq = w[p].seq) =>
              ~ /\ RunAt(r, RunStart(r, o)).canOpen
                /\ RunAt(r, RunStart(r, p)).canClose
                /\ allow(RunAt(r, RunStart(r, p)), RunAt(r, RunStart(r, o)))

\* C25: emphasis is resolved separately inside the text of each link and
\* image.  Every paragraph written back with its links, images and emphasis
\* delimiters is the text of its line, so each link holds exactly what stood
\* between its brackets and each Emph or Strong lies wholly inside or wholly
\* outside it; and inside every inline sequence, those of links and images
\* included, no two "*" runs that may match are left as text.
C25_EmphasisInsideLinks ==
    Returned =>
        \A b \in DocBlocks : b.kind = "Paragraph" =>
            /\ [j \in 1..Len(ParaSource(b)) |-> ParaSource(b)[j].c] = trimSpaceTab(input[1])
            /\ ResolvedWithin(ParaSource(b))

\* "*[a*](u)" parsed: the "*" before the link can open and the "*" inside
\* it can close, and both stay text
C25_NoPairAcrossBracket ==
    /\ Returned
    /\ input = << <<"*", "[", "a", "*", "]", "(", "u", ")">> >>
    /\ root.Blocks[1].Text.Inline =
          << Plain(<<"*">>),
             [kind |-> "Link", Inner |-> <<Plain(<<"a", "*">>)>>, URL |-> <<"u">>,
              Title |-> <<>>, TitleChar |-> ""] >>

\* "*[*a*](u)" parsed: emphasis was made inside the link, and the "*"
\* before the link stays text
C25_EmphInsideLink ==
    /\ Returned
    /\ input = << <<"*", "[", "*", "a", "*", "]", "(", "u", ")">> >>
    /\ root.Blocks[1].Text.Inline =
          << Plain(<<"*">>),
             [kind |-> "Link",
              Inner |-> <<[kind |-> "Emph", Marker |-> <<"*">>, Inner |-> <<Plain(<<"a">>)>>]>>,
              URL |-> <<"u">>, Title |-> <<>>, TitleChar |-> ""] >>


\* ------------------------------------------------------------------------
\* C26
\* ------------------------------------------------------------------------

\* the length of the run of backquotes of s that starts at a
TickRun(s, a) ==
    CHOOSE n \in 1..(Len(s) - a) :
        /\ \A k \in a..(a + n - 1) : At(s, k) = Backtick
        /\ (a + n = Len(s) \/ At(s, a + n) # Backtick)

\* the starts of the runs of exactly n backquotes that begin at or after i
RunsOf(s, n, i) ==
    {b \in i..(Len(s) - 1) :
        /\ At(s, b) = Backtick
        /\ At(s, b - 1) # Backtick
        /\ TickRun(s, b) = n}

\* acc with the text t added as plain text
AddPlain(acc, t) ==
    IF acc # <<>> /\ acc[Len(acc)].kind = "Plain"
    THEN [acc EXCEPT ![Len(acc)].Text = @ \o t]
    ELSE Append(acc, Plain(t))

RECURSIVE FullScan(_, _, _)
\* The inlines of a text of backquotes, letters and spaces from i on, when
\* every opening run of at most 80 backquotes is matched with the first
\* later run of the same length found by a scan of the rest of the text.
FullScan(s, i, acc) ==
    IF i >= Len(s) THEN acc
    ELSE IF At(s, i) # Backtick THEN FullScan(s, i + 1, AddPlain(acc, <<At(s, i)>>))
    ELSE
    Bind(TickRun(s, i), LAMBDA n :
    Bind(IF n <= maxBackticks THEN RunsOf(s, n, i + n) ELSE {}, LAMBDA later :
    IF later = {} THEN FullScan(s, i + n, AddPlain(acc, Slice(s, i, i + n)))
    ELSE Bind(CHOOSE b \in later : \A o \in later : b <= o, LAMBDA b :
         FullScan(s, b + n,
                  Append(acc, [kind |-> "Code", Text |-> codeText(Slice(s, i + n, b))])))))

\* the paragraph of a text of the backtick run family has been parsed
TicksParsed == Returned /\ Len(root.Blocks) = 1 /\ root.Blocks[1].kind = "Paragraph"

\* C26: a run of n backquotes, for n from 1 to 80, is rejected without a
\* scan only when no later run of exactly n backquotes exists: the inlines
\* of the text are those of a full scan of the rest of the text on every
\* attempt.
C26_SameAsFullScan ==
    Returned =>
        /\ TicksParsed
        /\ root.Blocks[1].Text.Inline = FullScan(trimSpaceTab(input[1]), 0, <<>>)


\* the text holds no run of exactly 80 backquotes
NoRunOfLimit == RunsOf(input[1], maxBackticks, 1) = {}

\* for runs of fewer than 80 backquotes the inlines are those of a full scan
C26_SameBelowLimit ==
    (Returned /\ NoRunOfLimit) =>
        /\ TicksParsed
        /\ root.Blocks[1].Text.Inline = FullScan(trimSpaceTab(input[1]), 0, <<>>)

\* a run of 80 backquotes was rejected although a later run of 80 exists
C26_RunOfLimitRejected ==
    /\ Returned /\ TicksParsed
    /\ \E a \in RunsOf(input[1], maxBackticks, 1) :
          RunsOf(input[1], maxBackticks, a + maxBackticks) # {}
    /\ \A k \in 1..Len(root.Blocks[1].Text.Inline) :
          root.Blocks[1].Text.Inline[k].kind = "Plain"


\* the least position at or after i where sub occurs in s, or -1
FirstAt(s, sub, i) ==
    Bind({b \in i..(Len(s) - Len(sub)) : Slice(s, b, b + Len(sub)) = sub}, LAMBDA at :
    IF at = {} THEN -1 ELSE CHOOSE b \in at : \A o \in at : b <= o)

\* The end of the comment, CDATA section, declaration or processing
\* instruction that starts at the "<" at i, when the rest of the text is
\* searched for the terminator; -1 when there is none.
MarkerEnd(s, i) ==
    LET rest == From(s, i)
        upto(prefix, suffix) ==
            Bind(FirstAt(s, suffix, i + Len(prefix)), LAMBDA b :
            IF b < 0 THEN -1 ELSE b + Len(suffix))
    IN
    IF Len(rest) < 3 THEN -1
    ELSE IF HasPrefix(rest, <<"<", "!", "-", "-", ">">>) THEN i + 5
    ELSE IF HasPrefix(rest, <<"<", "!", "-", "-", "-", ">">>) THEN i + 6
    ELSE IF HasPrefix(rest, <<"<", "!", "-", "-">>) THEN upto(<<"<", "!", "-", "-">>, <<"-", "-", ">">>)
    ELSE IF HasPrefix(rest, <<"<", "!", "[", "C", "D", "A", "T", "A", "[">>)
    THEN upto(<<"<", "!", "[", "C", "D", "A", "T", "A", "[">>, <<"]", "]", ">">>)
    ELSE IF HasPrefix(rest, <<"<", "!">>) /\ isLetter(rest[3]) THEN upto(<<"<", "!">>, <<">">>)
    ELSE IF HasPrefix(rest, <<"<", "?">>) THEN upto(<<"<", "?">>, <<"?", ">">>)
    ELSE -1

RECURSIVE Recognised(_, _, _)
\* The inlines of a text of the HTML marker family from i on, when every
\* "<" is tried with a search of the rest of the text for its terminator.
Recognised(s, i, acc) ==
    IF i >= Len(s) THEN acc
    ELSE IF At(s, i) # "<" \/ MarkerEnd(s, i) < 0
    THEN Recognised(s, i + 1, AddPlain(acc, <<At(s, i)>>))
    ELSE Recognised(s, MarkerEnd(s, i), Append(acc, HTMLTag(Slice(s, i, MarkerEnd(s, i)))))

\* the paragraph of a text of the HTML marker family has been parsed
MarksParsed == Returned /\ Len(root.Blocks) = 1 /\ root.Blocks[1].kind = "Paragraph"

\* C27: a caching flag suppresses a terminator scan only after a scan for
\* that same terminator has failed in the same text: the comments,
\* declarations, processing instructions and CDATA sections recognised are
\* those found when every attempt searches the rest of the text.
C27_SameAsWithoutFlags ==
    Returned =>
        /\ MarksParsed
        /\ root.Blocks[1].Text.Inline = Recognised(trimSpaceTab(input[1]), 0, <<>>)

\* the text holds no opener of a declaration
NoDeclOpener == FirstAt(input[1], <<"<", "!", "D">>, 0) < 0

\* without a declaration in the text the flags change nothing
C27_SameWithoutDecl ==
    (Returned /\ NoDeclOpener) =>
        /\ MarksParsed
        /\ root.Blocks[1].Text.Inline = Recognised(trimSpaceTab(input[1]), 0, <<>>)

\* a terminated declaration after an unterminated comment is left as text
C27_DeclSuppressedByComment ==
    /\ MarksParsed
    /\ input[1] = <<"a", "<", "!", "-", "-", "<", "!", "D", ">">>
    /\ root.Blocks[1].Text.Inline = <<Plain(input[1])>>


\* the markup that opens a reference anchor, an entry of the footnote
\* section and a back-reference, as the printer writes them
AnchorOpen == "<sup class=\"fn\"><a id=\"fnref-"

AnchorHref == "\" href=\"#fn-"

EntryOpen == "<li id=\"fn-"

EntryClose == "</li>\n"

BackOpen == "<a class=\"fnref\" href=\"#fnref-"

\* the least position after k of the output that holds tok
NextAt(k, tok) ==
    CHOOSE j \in (k + 1)..Len(out) :
        out[j] = tok /\ \A i \in (k + 1)..(j - 1) : out[i] # tok

\* the reference anchors of the output
Anchors == {k \in 1..Len(out) : out[k] = AnchorOpen}

\* the id suffix and the footnote number of the anchor at k
AnchorRef(k) == SubSeq(out, k + 1, NextAt(k, AnchorHref) - 1)

AnchorNum(k) == out[NextAt(k, AnchorHref) + 1]

\* the entries of the footnote section for footnote number n
Entries(n) == {k \in 1..(Len(out) - 1) : out[k] = EntryOpen /\ out[k + 1] = n}

\* the entry at k holds a back-reference to the anchor with id suffix ref
BacksTo(k, ref) ==
    \E b \in k..NextAt(k, EntryClose) :
        /\ out[b] = BackOpen
        /\ SubSeq(out, b + 1, NextAt(b, "\">") - 1) = ref

HTMLPrinted == phase = "printed" /\ panic = ""

\* the anchor at k has exactly one entry, with a back-reference to it
Listed(k) ==
    /\ Cardinality(Entries(AnchorNum(k))) = 1
    /\ \A e \in Entries(AnchorNum(k)) : BacksTo(e, AnchorRef(k))

\* C28: in the HTML output every referenced footnote, one first referenced
\* from inside another footnote's body included, has exactly one entry
\* <li id="fn-N">, and every reference anchor has a back-reference in it.
C28_EveryAnchorListed == HTMLPrinted => \A k \in Anchors : Listed(k)

\* the anchors written before the footnote section starts
BodyAnchors ==
    {k \in Anchors : \A j \in 1..k : out[j] # "<div class=\"footnotes\">Footnotes</div>"}

\* the anchors of the document body have their entry and back-reference
\* when no anchor is written inside the footnote section
C28_BodyAnchorsListed ==
    (HTMLPrinted /\ Anchors = BodyAnchors) => \A k \in Anchors : Listed(k)

\* a footnote first referenced from another footnote's body has no entry
C28_NestedNoteHasNoEntry ==
    /\ HTMLPrinted
    /\ \E k \in Anchors \ BodyAnchors : Entries(AnchorNum(k)) = {}

\* a reference written inside the footnote section to a footnote whose
\* entry is already written has no back-reference
C28_LateAnchorHasNoBackRef ==
    /\ HTMLPrinted
    /\ \E k \in Anchors \ BodyAnchors :
          /\ Entries(AnchorNum(k)) # {}
          /\ \A e \in Entries(AnchorNum(k)) : ~BacksTo(e, AnchorRef(k))


\* the characters before and after the quote at q of s; the ends of the
\* text count as spaces
Before(s, q) == IF q > 0 THEN At(s, q - 1) ELSE " "

After(s, q) == IF q + 1 < Len(s) THEN At(s, q + 1) ELSE " "

LeftFlanking(s, q) ==
    /\ ~isUnicodeSpace(After(s, q))
    /\ (isUnicodePunct(After(s, q)) => (isUnicodeSpace(Before(s, q)) \/ isUnicodePunct(Before(s, q))))

RightFlanking(s, q) ==
    /\ ~isUnicodeSpace(Before(s, q))
    /\ (isUnicodePunct(Before(s, q)) => (isUnicodeSpace(After(s, q)) \/ isUnicodePunct(After(s, q))))

\* the quote at q can open a quotation
QuoteOpens(s, q) == LeftFlanking(s, q) /\ ~RightFlanking(s, q) /\ Before(s, q) \notin {"]", ")"}

RECURSIVE Unmatched(_, _, _, _)
\* The positions of the quotes of a text of quotes, letters and spaces that
\* have no partner: a right-flanking quote is the partner of the latest
\* opening quote of its kind that has none yet; open holds the openers
\* without a partner so far, latest last.
Unmatched(s, q, open, un) ==
    IF q >= Len(s) THEN un \cup {open[k] : k \in 1..Len(open)}
    ELSE IF At(s, q) \notin {"'", "\""} THEN Unmatched(s, q + 1, open, un)
    ELSE
    Bind({k \in 1..Len(open) : At(s, open[k]) = At(s, q)}, LAMBDA same :
    IF RightFlanking(s, q) /\ same # {}
    THEN Bind(CHOOSE k \in same : \A o \in same : o <= k, LAMBDA k :
         Unmatched(s, q + 1, SubSeq(open, 1, k - 1) \o SubSeq(open, k + 1, Len(open)), un))
    ELSE IF QuoteOpens(s, q) THEN Unmatched(s, q + 1, Append(open, q), un)
    ELSE Unmatched(s, q + 1, open, un \cup {q}))

\* the text of a line of the quote family as inline parsing sees it
QuoteText == trimSpaceTab(input[1])

\* the line of the quote family was parsed as one paragraph of plain text
QuotesParsed ==
    /\ Returned /\ cfg.SmartQuote
    /\ Len(root.Blocks) = 1 /\ root.Blocks[1].kind = "Paragraph"
    /\ \A k \in 1..Len(root.Blocks[1].Text.Inline) : root.Blocks[1].Text.Inline[k].kind = "Plain"

\* the characters of the parsed paragraph, one for each character of the text
QuoteResult ==
    Concat([k \in 1..Len(root.Blocks[1].Text.Inline) |-> root.Blocks[1].Text.Inline[k].Text])

TableOpen ==
    /\ phase = "lines" /\ panic = "" /\ lineno < Len(input)
    /\ para(PState) # Nil
    /\ para(PState).table # Nil

\* the next line is not blank, is not a lone pipe, starts no new block and
\* was accepted by the extend of every container that encloses the table
RowLine ==
    /\ ~isBlank(Extended.s)
    /\ trimSpaceString(Extended.s) # <<"|">>
    /\ \A n \in 1..NumStarters : ~StatedOrder(n, Extended.p, Extended.s).ok
    /\ Extended.p.lineDepth = Len(stack) - 2

\* the step added one body row to the table and left it open
RowAdded ==
    /\ Len(stack') = Len(stack)
    /\ stack'[Len(stack)].id = stack[Len(stack)].id
    /\ stack'[Len(stack)].builder.table.rows
         = Append(stack[Len(stack)].builder.table.rows,
                  tableTrimOuter(trimSpaceString(Extended.s)))

\* the step ended the table: its builder is no longer on the stack
TableEnded == \A k \in 1..Len(stack') : stack'[k].id # stack[Len(stack)].id

C30_RowsExceptUnderlines ==
    [][(TableOpen /\ lineno' = lineno + 1 /\ panic' = ""
        /\ ~trimSetext(Extended.s).ok)
       => IF RowLine THEN RowAdded ELSE TableEnded]_vars

\* the line "=" after a table ended the table and started a paragraph
C30_UnderlineEndsTable ==
    /\ phase = "lines" /\ panic = "" /\ lineno = 3
    /\ input[3] = <<"=">>
    /\ Len(stack) = 2 /\ stack[2].builder.kind = "para" /\ stack[2].builder.table = Nil
    /\ stack[1].inner # <<>> /\ stack[1].inner[Len(stack[1].inner)].kind = "Table"

====
